---- MODULE Spec2Model ----
(***************************************************************************)
(* Hours-of-Service duty-status scheduler (generateDutyEvents) and the     *)
(* per-day partitioner (splitEventsIntoDays) of src/legacy/RouteMap.tsx.   *)
(*                                                                         *)
(* Units.  Timestamps are Date.getTime() values: integer milliseconds,     *)
(* counted in UTC.  Every quantity the source holds in decimal hours       *)
(* (durationHours, the shift accumulators, the profile's *Hours fields) is *)
(* held here in whole minutes, so 0.25 h is 15 and 11 h is 660.  Distances *)
(* are held in 1/60 mile, so that minutes * mph is exact: 1000 miles is    *)
(* 60000.  The local timezone is a fixed offset from UTC (no DST change    *)
(* inside a run): local time = UTC time + tzOffset.  Durations are whole   *)
(* minutes (the final pad: whole milliseconds), so the truncation of       *)
(* new Date(ms) to an integer never acts and the arithmetic is exact.      *)
(* Coordinates are [lat, lng] pairs in an angle unit whose meridian arc is *)
(* 1/60 mile; polylines run along a meridian or the equator, where the     *)
(* haversine distance of getDist is the coordinate difference.             *)
(*                                                                         *)
(* Specifications.  Spec: one call of generateDutyEvents followed by       *)
(* splitEventsIntoDays.  SpecStall: the same with profiles that have a     *)
(* limit of 0.  SpecMap: Spec followed by the route map's                  *)
(* repositionEventsAlongRoute.  SpecTwo: two calls whose steps interleave, *)
(* then each trip once more on its own.  SpecCoord: one call of            *)
(* getCoordinateAtDistance.                                                *)
(***************************************************************************)
EXTENDS Integers, Sequences, FiniteSets, TLC

VARIABLES
    route,                      \* RouteResult: leg distances and durationHours
    startTime,                  \* Date argument of generateDutyEvents (ms, UTC)
    config,                     \* HosProfileConfig (shiftRules, breakRules)
    averageSpeed,               \* mph
    tzOffset,                   \* local timezone of the runtime (ms, local - UTC)
    pc,                         \* position in generateDutyEvents / splitEventsIntoDays
    events,                     \* const events: DutyEvent[]
    currentTime,                \* let currentTime
    currentDistance,            \* let currentDistance
    remainingDrivingHours,
    shiftDrivingHours,
    shiftDutyWindowHours,
    drivingSinceLastBreakHours,
    milesSinceFuel,
    originToPickupRemaining,
    dailyLogs,                  \* Record<string, DailyLog>, in insertion order
    eventIdx,                   \* index of the forEach in splitEventsIntoDays
    current,                    \* let current (ms) of the while loop
    result,                     \* value returned by splitEventsIntoDays
    coords,                     \* value returned by a getCoordinateAtDistance call
    active,                     \* which of two invocations holds the variables above (0: only one)
    parked,                     \* the variables of the other invocation
    interleaved                 \* events returned by the two interleaved invocations

inputs == <<route, startTime, config, averageSpeed, tzOffset>>
sched  == <<events, currentTime, currentDistance, remainingDrivingHours,
            shiftDrivingHours, shiftDutyWindowHours, drivingSinceLastBreakHours,
            milesSinceFuel, originToPickupRemaining>>
split  == <<dailyLogs, eventIdx, current, result>>
callers == <<coords, active, parked, interleaved>>
vars   == <<inputs, pc, sched, split, callers>>

---------------------------------------------------------------------------
(* Time arithmetic *)

MsPerMinute == 60 * 1000
MsPerHour   == 60 * MsPerMinute
MsPerDay    == 24 * MsPerHour
MinPerHour  == 60

\* Largest number of events one run may hold (a loop that emits events
\* without consuming leg time would otherwise grow the list for ever).
MaxEvents == 40

\* Longest route.durationHours of the inputs, in hours.
MaxDurationHours == 30

\* Largest targetDist handed to getCoordinateAtDistance on its own.
MaxTarget == 12

\* Date.prototype.setHours(0, 0, 0, 0): midnight of t's LOCAL calendar day.
StartOfDay(t) == ((t + tzOffset) \div MsPerDay) * MsPerDay - tzOffset

\* setHours(24, 0, 0, 0) in place of line 706: the next local midnight.
EndOfDay_NextMidnight(t) == StartOfDay(t) + MsPerDay

\* Date.prototype.setHours(23, 59, 59, 999): last millisecond of t's local day.
EndOfDay(t) == StartOfDay(t) + MsPerDay - 1

\* nextDay taken one day after current itself, without line 725's
\* setHours(0, 0, 0, 0).
NextDay_FromCurrent(startOfDay) == current + MsPerDay

\* nextDay.setDate(nextDay.getDate() + 1) applied to a local midnight.
NextDay(startOfDay) == startOfDay + MsPerDay

\* current.toISOString().split('T')[0]: the UTC calendar date of t, held as
\* the number of the UTC day (the date strings compare as these numbers do).
DateKey(t) == t \div MsPerDay

Min2(a, b) == IF a <= b THEN a ELSE b

\* Math.min of lines 619-624 and 688-693 without the break-threshold term.
MathMin4_NoBreakTerm(a, b, c, d) == Min2(a, Min2(b, c))

\* Math.min without its third argument (lines 621 and 667, the duty-window
\* term).
MathMin4_NoWindowTerm(a, b, c, d) == Min2(Min2(a, b), d)

\* Math.min of four numbers.
MathMin4(a, b, c, d) == Min2(Min2(a, b), Min2(c, d))

---------------------------------------------------------------------------
(* Inputs *)

DutyStatus == {"off_duty", "sleeper_berth", "driving", "on_duty_not_driving"}

Profile(minOff, maxDrv, maxWin, req, brk) ==
    [shiftRules |-> [minOffDutyBeforeShiftHours |-> minOff,
                     maxDrivingHours            |-> maxDrv,
                     maxDutyWindowHours         |-> maxWin],
     breakRules |-> [requiredAfterDrivingHours  |-> req,
                     breakDurationMinutes       |-> brk]]

\* HOS_PROFILE_CONFIG_PROPERTY_CARRYING_US_FMCSA: 10 h rest, 11 h driving,
\* 14 h window, break of 30 min after 8 h driving.
DefaultProfile == Profile(10 * MinPerHour, 11 * MinPerHour, 14 * MinPerHour,
                          8 * MinPerHour, 30)

\* Profiles the function is run with: the default, one with a zero-minute
\* break, one with a zero-hour daily rest, one with a 9 h duty window.
Profiles ==
    { DefaultProfile,
      Profile(10 * MinPerHour, 11 * MinPerHour, 14 * MinPerHour, 8 * MinPerHour, 0),
      Profile(0, 11 * MinPerHour, 14 * MinPerHour, 8 * MinPerHour, 30),
      Profile(10 * MinPerHour, 11 * MinPerHour, 9 * MinPerHour, 8 * MinPerHour, 30) }

\* Profiles with a limit of 0: no break interval, no driving hours, no
\* duty window.  part_000 types the three fields as plain numbers.
StallProfiles ==
    { Profile(10 * MinPerHour, 11 * MinPerHour, 14 * MinPerHour, 0, 30),
      Profile(10 * MinPerHour, 0, 14 * MinPerHour, 8 * MinPerHour, 30),
      Profile(10 * MinPerHour, 11 * MinPerHour, 0, 8 * MinPerHour, 30) }

\* A route whose waypoints lie on one meridian, d1 and d2 miles apart:
\* points, the polyline through them ([lat, lng] pairs in angle units whose
\* meridian arc is 1/60 mile), the two getDist results of lines 584-591 and
\* durationHours.
Route(d1, d2, dur) ==
    [originToPickupDist |-> d1, pickupToDropoffDist |-> d2, durationHours |-> dur,
     points |-> [origin |-> <<600, 600>>,
                 pickup |-> <<600 + d1 * MinPerHour, 600>>,
                 dropoff |-> <<600 + (d1 + d2) * MinPerHour, 600>>],
     polyline |-> << <<600, 600>>,
                     <<600 + d1 * MinPerHour, 600>>,
                     <<600 + (d1 + d2) * MinPerHour, 600>> >>]

\* Routes: the 100-mile / 2 h scenario, a 20 h and a MaxDurationHours trip,
\* a 12 h trip whose pickup and dropoff coincide, a trip whose three
\* waypoints coincide, and a negative duration.
Routes ==
    { Route(40, 60, 2 * MinPerHour),
      Route(40, 60, 20 * MinPerHour),
      Route(40, 60, MaxDurationHours * MinPerHour),
      Route(40, 0, 12 * MinPerHour),
      Route(0, 0, 10 * MinPerHour),
      Route(40, 60, 0 - MinPerHour) }

Speeds == {0, 50}

\* Local timezones: UTC-5, UTC, UTC+8.
TzOffsets == {0 - 5 * MsPerHour, 0, 8 * MsPerHour}

\* Local wall-clock start times on local day 1: 00:00, 08:00, 20:00.
StartMinutes == {0, 8 * MinPerHour, 20 * MinPerHour}

Statuses0 == [s \in DutyStatus |-> 0]

---------------------------------------------------------------------------
(* generateDutyEvents *)

BreakRemarks(cfg) == ToString(cfg.breakRules.breakDurationMinutes) \o "-min Break"

DailyRestRemarks(cfg) ==
    ToString(cfg.shiftRules.minOffDutyBeforeShiftHours \div MinPerHour) \o "h Daily Rest"

\* remarks.includes('Fueling Stop') over the remarks the function writes.
IncludesFuelingStop(remarks) == remarks = "Fueling Stop"

\* remarks.includes('Break') over the remarks the function writes.
IncludesBreak(remarks) ==
    \E cfg \in Profiles \cup StallProfiles : remarks = BreakRemarks(cfg)

\* A fuel interval of twice the 1000 miles of line 581.
fuelIntervalMiles_Doubled == 2000 * MinPerHour

\* Line 581: `const fuelIntervalMiles = 1000`, in 1/60 mile.
fuelIntervalMiles == 1000 * MinPerHour

\* getDist (lines 491-501), the haversine distance, in 1/60 mile.  On a
\* meridian it is the difference of the latitudes and on the equator the
\* difference of the longitudes: the sum below is exact for segments along
\* a meridian or along the equator, the only ones the polylines here have.
GetDist(p1, p2) ==
    (IF p2[1] >= p1[1] THEN p2[1] - p1[1] ELSE p1[1] - p2[1])
      + (IF p2[2] >= p1[2] THEN p2[2] - p1[2] ELSE p1[2] - p2[2])

\* The number NaN: what `remaining / segmentDist` (line 516) makes of the
\* coordinates when segmentDist is 0.
NaN == 0 - MsPerDay

\* Lines 514-521: the body of the `if` of the loop of getCoordinateAtDistance.
Interpolate(p1, p2, remaining, segmentDist) ==
    IF segmentDist = 0
    THEN [lat |-> NaN, lng |-> NaN]
    ELSE [lat |-> p1[1] + ((p2[1] - p1[1]) * remaining) \div segmentDist,
          lng |-> p1[2] + ((p2[2] - p1[2]) * remaining) \div segmentDist]

\* Lines 509-526: the for loop from index i (1-based) on, and the return of
\* the last vertex after it.
RECURSIVE WalkPolyline(_, _, _, _)
WalkPolyline(i, accumulatedDist, targetDist, polyline) ==
    IF i > Len(polyline) - 1
    THEN [lat |-> polyline[Len(polyline)][1], lng |-> polyline[Len(polyline)][2]]
    ELSE LET p1 == polyline[i]
             p2 == polyline[i + 1]
             segmentDist == GetDist(p1, p2)
         IN IF accumulatedDist + segmentDist >= targetDist
            THEN Interpolate(p1, p2, targetDist - accumulatedDist, segmentDist)
            ELSE WalkPolyline(i + 1, accumulatedDist + segmentDist, targetDist, polyline)

\* getCoordinateAtDistance without line 506 (the clamp of targets <= 0).
GetCoordinateAtDistance_NoClamp(targetDist, polyline) ==
    IF Len(polyline) = 0 THEN [lat |-> 0, lng |-> 0]
    ELSE WalkPolyline(1, 0, targetDist, polyline)

\* Lines 504-527: getCoordinateAtDistance.
GetCoordinateAtDistance(targetDist, polyline) ==
    IF Len(polyline) = 0 THEN [lat |-> 0, lng |-> 0]
    ELSE IF targetDist <= 0 THEN [lat |-> polyline[1][1], lng |-> polyline[1][2]]
    ELSE WalkPolyline(1, 0, targetDist, polyline)

\* Distance advance of addEvent, by status and remarks (1/60 mile).
DistanceAdvance(status, durationHours, remarks) ==
    IF status = "driving" THEN durationHours * averageSpeed
    ELSE IF status = "on_duty_not_driving" /\ IncludesFuelingStop(remarks)
         THEN 5 * MinPerHour
    ELSE IF status = "off_duty" /\ IncludesBreak(remarks) THEN 3 * MinPerHour
    ELSE IF status = "sleeper_berth" THEN 10 * MinPerHour
    ELSE 0

\* addEvent without its last statement (line 567, currentTime = end).
AddEvent_KeepTime(s, status, durationHours, location, remarks) ==
    [events |-> Append(s.events,
                       [status |-> status, start |-> s.currentTime,
                        end |-> s.currentTime + durationHours * MsPerMinute,
                        location |-> location, remarks |-> remarks,
                        dist |-> s.currentDistance,
                        lat |-> GetCoordinateAtDistance(s.currentDistance,
                                                        route.polyline).lat,
                        lng |-> GetCoordinateAtDistance(s.currentDistance,
                                                        route.polyline).lng]),
     currentDistance |-> s.currentDistance
                           + DistanceAdvance(status, durationHours, remarks),
     currentTime |-> s.currentTime]

\* addEvent with lines 554-565 (the advance) ahead of line 541 (the
\* coordinates).
AddEvent_AdvanceFirst(s, status, durationHours, location, remarks) ==
    LET end == s.currentTime + durationHours * MsPerMinute
        advanced == s.currentDistance
                      + DistanceAdvance(status, durationHours, remarks)
    IN
    [events |-> Append(s.events,
                       [status |-> status, start |-> s.currentTime, end |-> end,
                        location |-> location, remarks |-> remarks,
                        dist |-> s.currentDistance,
                        lat |-> GetCoordinateAtDistance(advanced,
                                                        route.polyline).lat,
                        lng |-> GetCoordinateAtDistance(advanced,
                                                        route.polyline).lng]),
     currentDistance |-> advanced,
     currentTime |-> end]

\* addEvent on the closure state s = [events, currentTime, currentDistance].
AddEvent(s, status, durationHours, location, remarks) ==
    LET end == s.currentTime + durationHours * MsPerMinute IN
    [events |-> Append(s.events,
                       [status |-> status, start |-> s.currentTime, end |-> end,
                        location |-> location, remarks |-> remarks,
                        dist |-> s.currentDistance,
                        lat |-> GetCoordinateAtDistance(s.currentDistance,
                                                        route.polyline).lat,
                        lng |-> GetCoordinateAtDistance(s.currentDistance,
                                                        route.polyline).lng]),
     currentDistance |-> s.currentDistance
                           + DistanceAdvance(status, durationHours, remarks),
     currentTime |-> end]

Closure == [events |-> events, currentTime |-> currentTime,
            currentDistance |-> currentDistance]

SetClosure(s) ==
    /\ events' = s.events
    /\ currentTime' = s.currentTime
    /\ currentDistance' = s.currentDistance

\* Lines 583-598: split of durationHours over the two legs.
TotalDistance == route.originToPickupDist + route.pickupToDropoffDist

OriginToPickupHours ==
    IF TotalDistance > 0
    THEN (route.originToPickupDist * route.durationHours) \div TotalDistance
    ELSE 0

\* Leg 2 given the whole driving time whatever the distances (line 598's
\* else-value alone).
PickupToDropoffHours_Whole == route.durationHours

PickupToDropoffHours ==
    IF TotalDistance > 0
    THEN (route.pickupToDropoffDist * route.durationHours) \div TotalDistance
    ELSE route.durationHours

InitWith(profiles) ==
    /\ route \in Routes
    /\ config \in profiles
    /\ averageSpeed \in Speeds
    /\ tzOffset \in TzOffsets
    /\ \E m \in StartMinutes : startTime = MsPerDay - tzOffset + m * MsPerMinute
    /\ pc = "start"
    /\ events = << >>
    /\ currentTime = StartOfDay(startTime)
    /\ currentDistance = 0
    /\ remainingDrivingHours = 0
    /\ shiftDrivingHours = 0
    /\ shiftDutyWindowHours = 0
    /\ drivingSinceLastBreakHours = 0
    /\ milesSinceFuel = 0
    /\ originToPickupRemaining = 0
    /\ dailyLogs = << >>
    /\ eventIdx = 0
    /\ current = 0
    /\ result = << >>
    /\ coords = [lat |-> 0, lng |-> 0]
    /\ active = 0
    /\ parked = [pc |-> "none"]
    /\ interleaved = << >>

Init == InitWith(Profiles)

\* The same calls with the profiles that have a limit of 0.
InitStall == InitWith(StallProfiles)

\* Lines 570-581: the off-duty pad from midnight to startTime, then the
\* accumulators.
InitialPad ==
    /\ pc = "start"
    /\ LET startOfDayOne == StartOfDay(startTime)
           offDutyHours == (startTime - startOfDayOne) \div MsPerMinute
       IN IF startTime > startOfDayOne
          THEN SetClosure(AddEvent(Closure, "off_duty", offDutyHours, "Home Terminal",
                                   "Off Duty - Continuous Rest Period"))
          ELSE UNCHANGED <<events, currentTime, currentDistance>>
    /\ remainingDrivingHours' = route.durationHours
    /\ shiftDrivingHours' = 0
    /\ shiftDutyWindowHours' = 0
    /\ drivingSinceLastBreakHours' = 0
    /\ milesSinceFuel' = 0
    /\ pc' = "pretrip"
    /\ UNCHANGED <<inputs, callers, originToPickupRemaining, split>>

\* The pre-trip inspection without line 602 (shiftDutyWindowHours += 0.25).
PreTrip_OffWindow ==
    /\ pc = "pretrip"
    /\ SetClosure(AddEvent(Closure, "on_duty_not_driving", 15, "origin",
                           "Pre-trip Inspection"))
    /\ originToPickupRemaining' =
          IF OriginToPickupHours > 0 THEN OriginToPickupHours ELSE 0
    /\ pc' = "leg1"
    /\ UNCHANGED <<inputs, callers, remainingDrivingHours, shiftDrivingHours,
                   shiftDutyWindowHours, drivingSinceLastBreakHours,
                   milesSinceFuel, split>>

\* Lines 600-606: pre-trip inspection, entry of the leg-1 block.
PreTrip ==
    /\ pc = "pretrip"
    /\ SetClosure(AddEvent(Closure, "on_duty_not_driving", 15, "origin",
                           "Pre-trip Inspection"))
    /\ shiftDutyWindowHours' = shiftDutyWindowHours + 15
    /\ originToPickupRemaining' =
          IF OriginToPickupHours > 0 THEN OriginToPickupHours ELSE 0
    /\ pc' = "leg1"
    /\ UNCHANGED <<inputs, callers, remainingDrivingHours, shiftDrivingHours,
                   drivingSinceLastBreakHours, milesSinceFuel, split>>

\* A leg-1 stall handled as leg 2 handles it (lines 656-660): a rest, and
\* the loop goes on.
Leg1Stall_Rest ==
    /\ SetClosure(AddEvent(Closure, "sleeper_berth",
                           config.shiftRules.minOffDutyBeforeShiftHours,
                           "Truck Stop", DailyRestRemarks(config)))
    /\ shiftDrivingHours' = 0
    /\ shiftDutyWindowHours' = 0
    /\ drivingSinceLastBreakHours' = 0
    /\ UNCHANGED <<originToPickupRemaining, remainingDrivingHours, milesSinceFuel, pc>>

\* Line 625: `if (maxDrivingThisSegment <= 0) break;` leaves the leg-1 loop
\* with the leg time that is left.
Leg1Stall ==
    /\ pc' = "pickup"
    /\ UNCHANGED sched

\* The pickup block placed inside the `if (originToPickupHours > 0)` block:
\* leaving leg 1 goes straight to the leg-2 loop.
Leg1Exit_SkipPickup ==
    /\ pc = "leg1"
    /\ originToPickupRemaining <= 0
    /\ pc' = "leg2"
    /\ remainingDrivingHours' = PickupToDropoffHours
    /\ UNCHANGED <<inputs, callers, events, currentTime, currentDistance, shiftDrivingHours,
                   shiftDutyWindowHours, drivingSinceLastBreakHours, milesSinceFuel,
                   originToPickupRemaining, split>>

\* Lines 608-635: one iteration of the leg-1 while loop.
Leg1Iteration ==
    /\ pc = "leg1"
    /\ originToPickupRemaining > 0
    /\ Len(events) < MaxEvents
    /\ IF drivingSinceLastBreakHours >= config.breakRules.requiredAfterDrivingHours
       THEN LET breakDur == config.breakRules.breakDurationMinutes IN
            /\ SetClosure(AddEvent(Closure, "off_duty", breakDur, "Rest Area",
                                   BreakRemarks(config)))
            /\ shiftDutyWindowHours' = shiftDutyWindowHours + breakDur
            /\ drivingSinceLastBreakHours' = 0
            /\ UNCHANGED <<originToPickupRemaining, remainingDrivingHours,
                           shiftDrivingHours, milesSinceFuel, pc>>
       ELSE LET maxDrivingThisSegment ==
                   MathMin4(originToPickupRemaining,
                            config.shiftRules.maxDrivingHours - shiftDrivingHours,
                            config.shiftRules.maxDutyWindowHours - shiftDutyWindowHours,
                            config.breakRules.requiredAfterDrivingHours
                               - drivingSinceLastBreakHours)
            IN IF maxDrivingThisSegment <= 0
               THEN Leg1Stall
               ELSE /\ SetClosure(AddEvent(Closure, "driving", maxDrivingThisSegment,
                                           "En Route to Pickup",
                                           "Driving to Pickup Location"))
                    /\ originToPickupRemaining' =
                          originToPickupRemaining - maxDrivingThisSegment
                    /\ remainingDrivingHours' =
                          remainingDrivingHours - maxDrivingThisSegment
                    /\ shiftDrivingHours' = shiftDrivingHours + maxDrivingThisSegment
                    /\ shiftDutyWindowHours' =
                          shiftDutyWindowHours + maxDrivingThisSegment
                    /\ drivingSinceLastBreakHours' =
                          drivingSinceLastBreakHours + maxDrivingThisSegment
                    /\ milesSinceFuel' =
                          milesSinceFuel + maxDrivingThisSegment * averageSpeed
                    /\ pc' = pc
    /\ UNCHANGED <<inputs, callers, split>>

\* Line 608: the leg-1 loop condition fails (or the block was skipped).
Leg1Exit ==
    /\ pc = "leg1"
    /\ originToPickupRemaining <= 0
    /\ pc' = "pickup"
    /\ UNCHANGED <<inputs, callers, sched, split>>

\* Lines 638-643: pickup operation, then the leg-2 hours.
Pickup ==
    /\ pc = "pickup"
    /\ SetClosure(AddEvent(Closure, "on_duty_not_driving", 60, "pickup",
                           "Pickup (Loading)"))
    /\ shiftDutyWindowHours' = shiftDutyWindowHours + 60
    /\ remainingDrivingHours' = PickupToDropoffHours
    /\ pc' = "leg2"
    /\ UNCHANGED <<inputs, callers, shiftDrivingHours, drivingSinceLastBreakHours,
                   milesSinceFuel, originToPickupRemaining, split>>

\* The reset without line 657 (shiftDrivingHours = 0).
RestReset_KeepDriving ==
    [shiftDrivingHours |-> shiftDrivingHours, shiftDutyWindowHours |-> 0,
     drivingSinceLastBreakHours |-> 0]

\* The reset without line 659 (drivingSinceLastBreakHours = 0).
RestReset_KeepBreakClock ==
    [shiftDrivingHours |-> 0, shiftDutyWindowHours |-> 0,
     drivingSinceLastBreakHours |-> drivingSinceLastBreakHours]

\* The reset without line 658 (shiftDutyWindowHours = 0).
RestReset_KeepWindow ==
    [shiftDrivingHours |-> 0, shiftDutyWindowHours |-> shiftDutyWindowHours,
     drivingSinceLastBreakHours |-> 0]

\* Lines 657-659 and 682-684: the accumulators after a sleeper-berth rest.
RestReset ==
    [shiftDrivingHours |-> 0, shiftDutyWindowHours |-> 0,
     drivingSinceLastBreakHours |-> 0]

\* The leg-2 iteration without line 654 (the duty-window half of the
\* shift-limit check).
Leg2Iteration_NoWindowCheck ==
    /\ pc = "leg2"
    /\ remainingDrivingHours > 0
    /\ Len(events) < MaxEvents
    /\ LET fuel == milesSinceFuel >= fuelIntervalMiles
           s1 == IF fuel
                 THEN AddEvent(Closure, "on_duty_not_driving", 30, "Fuel Station",
                               "Fueling Stop")
                 ELSE Closure
           window1 == IF fuel THEN shiftDutyWindowHours + 30 ELSE shiftDutyWindowHours
           miles1 == IF fuel THEN 0 ELSE milesSinceFuel
           atDrivingLimit == shiftDrivingHours >= config.shiftRules.maxDrivingHours
           maxDrivingThisSegment ==
               MathMin4(remainingDrivingHours,
                        config.shiftRules.maxDrivingHours - shiftDrivingHours,
                        config.shiftRules.maxDutyWindowHours - window1,
                        config.breakRules.requiredAfterDrivingHours
                           - drivingSinceLastBreakHours)
       IN IF atDrivingLimit
          THEN /\ SetClosure(AddEvent(s1, "sleeper_berth",
                                      config.shiftRules.minOffDutyBeforeShiftHours,
                                      "Truck Stop", DailyRestRemarks(config)))
               /\ shiftDrivingHours' = RestReset.shiftDrivingHours
               /\ shiftDutyWindowHours' = RestReset.shiftDutyWindowHours
               /\ drivingSinceLastBreakHours' = RestReset.drivingSinceLastBreakHours
               /\ milesSinceFuel' = miles1
               /\ UNCHANGED remainingDrivingHours
          ELSE IF drivingSinceLastBreakHours
                     >= config.breakRules.requiredAfterDrivingHours
          THEN LET breakDur == config.breakRules.breakDurationMinutes IN
               /\ SetClosure(AddEvent(s1, "off_duty", breakDur, "Rest Area",
                                      BreakRemarks(config)))
               /\ shiftDutyWindowHours' = window1 + breakDur
               /\ drivingSinceLastBreakHours' = 0
               /\ milesSinceFuel' = miles1
               /\ UNCHANGED <<remainingDrivingHours, shiftDrivingHours>>
          ELSE IF maxDrivingThisSegment <= 0
          THEN /\ SetClosure(AddEvent(s1, "sleeper_berth",
                                      config.shiftRules.minOffDutyBeforeShiftHours,
                                      "Rest Area", "Duty Window Rest"))
               /\ shiftDrivingHours' = RestReset.shiftDrivingHours
               /\ shiftDutyWindowHours' = RestReset.shiftDutyWindowHours
               /\ drivingSinceLastBreakHours' = RestReset.drivingSinceLastBreakHours
               /\ milesSinceFuel' = miles1
               /\ UNCHANGED remainingDrivingHours
          ELSE /\ SetClosure(AddEvent(s1, "driving", maxDrivingThisSegment,
                                      "En Route to Dropoff",
                                      "Driving to Delivery Location"))
               /\ remainingDrivingHours' = remainingDrivingHours - maxDrivingThisSegment
               /\ shiftDrivingHours' = shiftDrivingHours + maxDrivingThisSegment
               /\ shiftDutyWindowHours' = window1 + maxDrivingThisSegment
               /\ drivingSinceLastBreakHours' =
                     drivingSinceLastBreakHours + maxDrivingThisSegment
               /\ milesSinceFuel' = miles1 + maxDrivingThisSegment * averageSpeed
    /\ UNCHANGED <<inputs, callers, pc, originToPickupRemaining, split>>

\* The leg-2 iteration under the loop condition `remainingDrivingHours >= 0`
\* in place of line 644's `> 0`.
Leg2Iteration_WhileNotNegative ==
    /\ pc = "leg2"
    /\ remainingDrivingHours >= 0
    /\ Len(events) < MaxEvents
    /\ LET fuel == milesSinceFuel >= fuelIntervalMiles
           s1 == IF fuel
                 THEN AddEvent(Closure, "on_duty_not_driving", 30, "Fuel Station",
                               "Fueling Stop")
                 ELSE Closure
           window1 == IF fuel THEN shiftDutyWindowHours + 30 ELSE shiftDutyWindowHours
           miles1 == IF fuel THEN 0 ELSE milesSinceFuel
           atDrivingLimit == shiftDrivingHours >= config.shiftRules.maxDrivingHours
           atDutyWindowLimit == window1 >= config.shiftRules.maxDutyWindowHours
           maxDrivingThisSegment ==
               MathMin4(remainingDrivingHours,
                        config.shiftRules.maxDrivingHours - shiftDrivingHours,
                        config.shiftRules.maxDutyWindowHours - window1,
                        config.breakRules.requiredAfterDrivingHours
                           - drivingSinceLastBreakHours)
       IN IF atDrivingLimit \/ atDutyWindowLimit
          THEN /\ SetClosure(AddEvent(s1, "sleeper_berth",
                                      config.shiftRules.minOffDutyBeforeShiftHours,
                                      "Truck Stop", DailyRestRemarks(config)))
               /\ shiftDrivingHours' = RestReset.shiftDrivingHours
               /\ shiftDutyWindowHours' = RestReset.shiftDutyWindowHours
               /\ drivingSinceLastBreakHours' = RestReset.drivingSinceLastBreakHours
               /\ milesSinceFuel' = miles1
               /\ UNCHANGED remainingDrivingHours
          ELSE IF drivingSinceLastBreakHours
                     >= config.breakRules.requiredAfterDrivingHours
          THEN LET breakDur == config.breakRules.breakDurationMinutes IN
               /\ SetClosure(AddEvent(s1, "off_duty", breakDur, "Rest Area",
                                      BreakRemarks(config)))
               /\ shiftDutyWindowHours' = window1 + breakDur
               /\ drivingSinceLastBreakHours' = 0
               /\ milesSinceFuel' = miles1
               /\ UNCHANGED <<remainingDrivingHours, shiftDrivingHours>>
          ELSE IF maxDrivingThisSegment <= 0
          THEN /\ SetClosure(AddEvent(s1, "sleeper_berth",
                                      config.shiftRules.minOffDutyBeforeShiftHours,
                                      "Rest Area", "Duty Window Rest"))
               /\ shiftDrivingHours' = RestReset.shiftDrivingHours
               /\ shiftDutyWindowHours' = RestReset.shiftDutyWindowHours
               /\ drivingSinceLastBreakHours' = RestReset.drivingSinceLastBreakHours
               /\ milesSinceFuel' = miles1
               /\ UNCHANGED remainingDrivingHours
          ELSE /\ SetClosure(AddEvent(s1, "driving", maxDrivingThisSegment,
                                      "En Route to Dropoff",
                                      "Driving to Delivery Location"))
               /\ remainingDrivingHours' = remainingDrivingHours - maxDrivingThisSegment
               /\ shiftDrivingHours' = shiftDrivingHours + maxDrivingThisSegment
               /\ shiftDutyWindowHours' = window1 + maxDrivingThisSegment
               /\ drivingSinceLastBreakHours' =
                     drivingSinceLastBreakHours + maxDrivingThisSegment
               /\ milesSinceFuel' = miles1 + maxDrivingThisSegment * averageSpeed
    /\ UNCHANGED <<inputs, callers, pc, originToPickupRemaining, split>>

\* Lines 644-695: one iteration of the leg-2 while loop.  The fuel check
\* does not end the iteration: the shift-limit, break and chunk checks of
\* the same iteration follow it.
Leg2Iteration ==
    /\ pc = "leg2"
    /\ remainingDrivingHours > 0
    /\ Len(events) < MaxEvents
    /\ LET fuel == milesSinceFuel >= fuelIntervalMiles
           s1 == IF fuel
                 THEN AddEvent(Closure, "on_duty_not_driving", 30, "Fuel Station",
                               "Fueling Stop")
                 ELSE Closure
           window1 == IF fuel THEN shiftDutyWindowHours + 30 ELSE shiftDutyWindowHours
           miles1 == IF fuel THEN 0 ELSE milesSinceFuel
           atDrivingLimit == shiftDrivingHours >= config.shiftRules.maxDrivingHours
           atDutyWindowLimit == window1 >= config.shiftRules.maxDutyWindowHours
           maxDrivingThisSegment ==
               MathMin4(remainingDrivingHours,
                        config.shiftRules.maxDrivingHours - shiftDrivingHours,
                        config.shiftRules.maxDutyWindowHours - window1,
                        config.breakRules.requiredAfterDrivingHours
                           - drivingSinceLastBreakHours)
       IN IF atDrivingLimit \/ atDutyWindowLimit
          THEN /\ SetClosure(AddEvent(s1, "sleeper_berth",
                                      config.shiftRules.minOffDutyBeforeShiftHours,
                                      "Truck Stop", DailyRestRemarks(config)))
               /\ shiftDrivingHours' = RestReset.shiftDrivingHours
               /\ shiftDutyWindowHours' = RestReset.shiftDutyWindowHours
               /\ drivingSinceLastBreakHours' = RestReset.drivingSinceLastBreakHours
               /\ milesSinceFuel' = miles1
               /\ UNCHANGED remainingDrivingHours
          ELSE IF drivingSinceLastBreakHours
                     >= config.breakRules.requiredAfterDrivingHours
          THEN LET breakDur == config.breakRules.breakDurationMinutes IN
               /\ SetClosure(AddEvent(s1, "off_duty", breakDur, "Rest Area",
                                      BreakRemarks(config)))
               /\ shiftDutyWindowHours' = window1 + breakDur
               /\ drivingSinceLastBreakHours' = 0
               /\ milesSinceFuel' = miles1
               /\ UNCHANGED <<remainingDrivingHours, shiftDrivingHours>>
          ELSE IF maxDrivingThisSegment <= 0
          THEN /\ SetClosure(AddEvent(s1, "sleeper_berth",
                                      config.shiftRules.minOffDutyBeforeShiftHours,
                                      "Rest Area", "Duty Window Rest"))
               /\ shiftDrivingHours' = RestReset.shiftDrivingHours
               /\ shiftDutyWindowHours' = RestReset.shiftDutyWindowHours
               /\ drivingSinceLastBreakHours' = RestReset.drivingSinceLastBreakHours
               /\ milesSinceFuel' = miles1
               /\ UNCHANGED remainingDrivingHours
          ELSE /\ SetClosure(AddEvent(s1, "driving", maxDrivingThisSegment,
                                      "En Route to Dropoff",
                                      "Driving to Delivery Location"))
               /\ remainingDrivingHours' = remainingDrivingHours - maxDrivingThisSegment
               /\ shiftDrivingHours' = shiftDrivingHours + maxDrivingThisSegment
               /\ shiftDutyWindowHours' = window1 + maxDrivingThisSegment
               /\ drivingSinceLastBreakHours' =
                     drivingSinceLastBreakHours + maxDrivingThisSegment
               /\ milesSinceFuel' = miles1 + maxDrivingThisSegment * averageSpeed
    /\ UNCHANGED <<inputs, callers, pc, originToPickupRemaining, split>>

\* Lines 697-699: the leg-2 loop condition fails; dropoff operation.
Dropoff ==
    /\ pc = "leg2"
    /\ remainingDrivingHours <= 0
    /\ SetClosure(AddEvent(Closure, "on_duty_not_driving", 60, "dropoff",
                           "Dropoff (Unloading)"))
    /\ shiftDutyWindowHours' = shiftDutyWindowHours + 60
    /\ pc' = "posttrip"
    /\ UNCHANGED <<inputs, callers, remainingDrivingHours, shiftDrivingHours,
                   drivingSinceLastBreakHours, milesSinceFuel,
                   originToPickupRemaining, split>>

\* Line 702: post-trip inspection.
PostTrip ==
    /\ pc = "posttrip"
    /\ SetClosure(AddEvent(Closure, "on_duty_not_driving", 15, "dropoff",
                           "Post-trip Inspection"))
    /\ pc' = "finalpad"
    /\ UNCHANGED <<inputs, callers, remainingDrivingHours, shiftDrivingHours,
                   shiftDutyWindowHours, drivingSinceLastBreakHours, milesSinceFuel,
                   originToPickupRemaining, split>>

\* addEvent with a duration given in milliseconds (the final pad is the one
\* duration of the function that is not a whole number of minutes).
AddEventMs(s, status, durationMs, location, remarks) ==
    LET end == s.currentTime + durationMs IN
    [events |-> Append(s.events,
                       [status |-> status, start |-> s.currentTime, end |-> end,
                        location |-> location, remarks |-> remarks,
                        dist |-> s.currentDistance,
                        lat |-> GetCoordinateAtDistance(s.currentDistance,
                                                        route.polyline).lat,
                        lng |-> GetCoordinateAtDistance(s.currentDistance,
                                                        route.polyline).lng]),
     currentDistance |-> s.currentDistance + DistanceAdvance(status, 0, remarks),
     currentTime |-> end]

\* Lines 704-712: the off-duty pad to the end of the day, and the return.
FinalPad ==
    /\ pc = "finalpad"
    /\ LET endOfLastDay == EndOfDay(currentTime) IN
       IF endOfLastDay > currentTime
       THEN SetClosure(AddEventMs(Closure, "off_duty", endOfLastDay - currentTime,
                                  "Home Terminal",
                                  "Off Duty - End of Day Rest Period"))
       ELSE UNCHANGED <<events, currentTime, currentDistance>>
    /\ pc' = "returned"
    /\ UNCHANGED <<inputs, callers, remainingDrivingHours, shiftDrivingHours,
                   shiftDutyWindowHours, drivingSinceLastBreakHours, milesSinceFuel,
                   originToPickupRemaining, split>>

---------------------------------------------------------------------------
(* splitEventsIntoDays *)

\* Position of the log keyed dateKey in dailyLogs, 0 when dailyLogs[dateKey]
\* is undefined.
LogIndex(logs, dateKey) ==
    IF \E i \in 1..Len(logs) : logs[i].date = dateKey
    THEN CHOOSE i \in 1..Len(logs) : logs[i].date = dateKey
    ELSE 0

\* Lines 732-739: the empty DailyLog of a date.
NewDailyLog(dateKey) ==
    [date |-> dateKey, events |-> << >>, totals |-> Statuses0, totalMiles |-> 0]

\* The accumulation with the event's whole duration in place of the
\* segment's (lines 730, 746-749).
AddToLog_WholeEvent(log, event, from, to) ==
    [log EXCEPT
       !.events = Append(@, [event EXCEPT !.start = from, !.end = to]),
       !.totals[event.status] = @ + (event.end - event.start),
       !.totalMiles = IF event.status = "driving"
                      THEN @ + ((event.end - event.start) \div MsPerMinute)
                                 * averageSpeed
                      ELSE @]

\* Lines 741-750: push the sub-event and add its duration to the totals.
\* totals are held in ms; totalMiles in 1/60 mile (driving sub-events are
\* whole minutes long).
AddToLog(log, event, from, to) ==
    [log EXCEPT
       !.events = Append(@, [event EXCEPT !.start = from, !.end = to]),
       !.totals[event.status] = @ + (to - from),
       !.totalMiles = IF event.status = "driving"
                      THEN @ + ((to - from) \div MsPerMinute) * averageSpeed
                      ELSE @]

\* Insertion of a log into a list sorted by date, after the logs whose date
\* is not greater (Array.prototype.sort is stable).
RECURSIVE InsertByDate(_, _)
InsertByDate(log, sorted) ==
    IF sorted = << >> THEN <<log>>
    ELSE IF log.date < sorted[1].date THEN <<log>> \o sorted
    ELSE <<sorted[1]>> \o InsertByDate(log, Tail(sorted))

\* Line 756: Object.values(dailyLogs).sort((a, b) => a.date.localeCompare(b.date)).
RECURSIVE SortByDate(_)
SortByDate(logs) ==
    IF logs = << >> THEN << >>
    ELSE InsertByDate(logs[Len(logs)], SortByDate(SubSeq(logs, 1, Len(logs) - 1)))

\* Lines 715-720: the call on the returned events; first event of the forEach.
SplitBegin ==
    /\ pc = "returned"
    /\ dailyLogs' = << >>
    /\ eventIdx' = 1
    /\ current' = IF Len(events) >= 1 THEN events[1].start ELSE 0
    /\ pc' = "split"
    /\ UNCHANGED <<inputs, callers, sched, result>>

\* Lines 722-753: one iteration of the while loop of the current event.
SplitSegment ==
    /\ pc = "split"
    /\ eventIdx <= Len(events)
    /\ current < events[eventIdx].end
    /\ LET event == events[eventIdx]
           end == event.end
           dateKey == DateKey(current)
           startOfDay == StartOfDay(current)
           nextDay == NextDay(startOfDay)
           segmentEnd == IF end < nextDay THEN end ELSE nextDay
           logs1 == IF LogIndex(dailyLogs, dateKey) = 0
                    THEN Append(dailyLogs, NewDailyLog(dateKey))
                    ELSE dailyLogs
           i == LogIndex(logs1, dateKey)
       IN /\ dailyLogs' = [logs1 EXCEPT ![i] = AddToLog(@, event, current, segmentEnd)]
          /\ current' = segmentEnd
    /\ UNCHANGED <<inputs, callers, pc, sched, eventIdx, result>>

\* Lines 718-722: the while condition fails; the forEach takes the next event.
SplitNextEvent ==
    /\ pc = "split"
    /\ eventIdx <= Len(events)
    /\ current >= events[eventIdx].end
    /\ eventIdx' = eventIdx + 1
    /\ current' = IF eventIdx + 1 <= Len(events)
                  THEN events[eventIdx + 1].start ELSE current
    /\ UNCHANGED <<inputs, callers, pc, sched, dailyLogs, result>>

\* Line 756: the forEach is over; sort and return.
SplitReturn ==
    /\ pc = "split"
    /\ eventIdx > Len(events)
    /\ result' = SortByDate(dailyLogs)
    /\ pc' = "done"
    /\ UNCHANGED <<inputs, callers, sched, dailyLogs, eventIdx, current>>

Next ==
    \/ InitialPad
    \/ PreTrip
    \/ Leg1Iteration
    \/ Leg1Exit
    \/ Pickup
    \/ Leg2Iteration
    \/ Dropoff
    \/ PostTrip
    \/ FinalPad
    \/ SplitBegin
    \/ SplitSegment
    \/ SplitNextEvent
    \/ SplitReturn

Spec == Init /\ [][Next]_vars

SpecStall == InitStall /\ [][Next]_vars

\* generateDutyEvents and splitEventsIntoDays are synchronous code on one
\* thread: a step that can be taken is taken.
SpecLive == Init /\ [][Next]_vars /\ WF_vars(Next)

---------------------------------------------------------------------------
(* splitEventsIntoDays on its own *)

\* A DutyEvent with the given status and times (UTC day d, hour h).
At(d, h) == d * MsPerDay + h * MsPerHour

DutyEvent(status, start, end) ==
    [status |-> status, start |-> start, end |-> end, location |-> "",
     remarks |-> "", dist |-> 0, lat |-> 0, lng |-> 0]

\* Event lists handed to splitEventsIntoDays: none; one event over three
\* midnights; a contiguous list with a drive over 00:00 UTC; the same with
\* an event of no duration in it; a list with an event whose end precedes
\* its start; one event of exactly one UTC day.
EventLists ==
    { << >>,
      << DutyEvent("off_duty", At(1, 6), At(4, 10)) >>,
      << DutyEvent("on_duty_not_driving", At(1, 19), At(1, 20)),
         DutyEvent("driving", At(1, 20), At(2, 2)),
         DutyEvent("sleeper_berth", At(2, 2), At(2, 12)),
         DutyEvent("driving", At(2, 12), At(2, 17)) >>,
      << DutyEvent("driving", At(1, 20), At(2, 2)),
         DutyEvent("off_duty", At(2, 2), At(2, 2)),
         DutyEvent("driving", At(2, 2), At(2, 9)) >>,
      << DutyEvent("driving", At(1, 20), At(1, 22)),
         DutyEvent("off_duty", At(2, 6), At(1, 22)),
         DutyEvent("driving", At(2, 6), At(2, 9)) >>,
      << DutyEvent("sleeper_berth", At(1, 0), At(2, 0)) >> }

InitSplit ==
    /\ events \in EventLists
    /\ averageSpeed \in Speeds
    /\ tzOffset \in TzOffsets
    /\ route = Route(40, 60, 2 * MinPerHour)
    /\ config = DefaultProfile
    /\ startTime = MsPerDay
    /\ pc = "returned"
    /\ currentTime = MsPerDay
    /\ currentDistance = 0
    /\ remainingDrivingHours = 0
    /\ shiftDrivingHours = 0
    /\ shiftDutyWindowHours = 0
    /\ drivingSinceLastBreakHours = 0
    /\ milesSinceFuel = 0
    /\ originToPickupRemaining = 0
    /\ dailyLogs = << >>
    /\ eventIdx = 0
    /\ current = 0
    /\ result = << >>
    /\ coords = [lat |-> 0, lng |-> 0]
    /\ active = 0
    /\ parked = [pc |-> "none"]
    /\ interleaved = << >>

NextSplit ==
    \/ SplitBegin
    \/ SplitSegment
    \/ SplitNextEvent
    \/ SplitReturn

SpecSplit == InitSplit /\ [][NextSplit]_vars

---------------------------------------------------------------------------
(* The route map that is handed the events *)

\* remarks.includes(...) of lines 83-85 over the remarks the function writes.
IncludesRestPeriod(remarks) ==
    remarks \in {"Off Duty - Continuous Rest Period",
                 "Off Duty - End of Day Rest Period"}

\* remarks.includes("Pickup") || remarks.includes("Loading"), lines 98-100.
IncludesPickup(remarks) ==
    remarks \in {"Pickup (Loading)", "Driving to Pickup Location"}

\* includes("Dropoff") || includes("Unloading") || includes("Post-trip"),
\* lines 105-108.
IncludesDropoff(remarks) ==
    remarks \in {"Dropoff (Unloading)", "Post-trip Inspection"}

\* Lines 117-125: start of the first "Pre-trip" event and end of the first
\* "Post-trip" event, or of the first and last event when there is none.
TripStartTime(es) ==
    IF \E k \in 1..Len(es) : es[k].remarks = "Pre-trip Inspection"
    THEN es[CHOOSE k \in 1..Len(es) : es[k].remarks = "Pre-trip Inspection"].start
    ELSE es[1].start

TripEndTime(es) ==
    IF \E k \in 1..Len(es) : es[k].remarks = "Post-trip Inspection"
    THEN es[CHOOSE k \in 1..Len(es) : es[k].remarks = "Post-trip Inspection"].end
    ELSE es[Len(es)].end

\* Lines 128-141: index into routeCoords by the event's progress through
\* the trip, the ratio clamped to [0, 1] (0-based, as in the source).
TargetIndex(event, es, routeCoords) ==
    LET num == event.start - TripStartTime(es)
        den == TripEndTime(es) - TripStartTime(es)
        n1 == Len(routeCoords) - 1
    IN IF num <= 0 THEN 0
       ELSE IF num >= den THEN n1
       ELSE (num * n1) \div den

\* Lines 91-146: targetLat / targetLng of one event.
Target(event, es, routeCoords) ==
    IF event.remarks = "Pre-trip Inspection" THEN route.points.origin
    ELSE IF IncludesPickup(event.remarks) THEN route.points.pickup
    ELSE IF IncludesDropoff(event.remarks) THEN route.points.dropoff
    ELSE routeCoords[TargetIndex(event, es, routeCoords) + 1]

\* Lines 81-156: the forEach callback.  `if (targetLat && targetLng)` holds
\* for numbers other than 0.
Repositioned(event, es, routeCoords) ==
    IF event.status = "off_duty" /\ IncludesRestPeriod(event.remarks)
    THEN event
    ELSE LET target == Target(event, es, routeCoords) IN
         IF target[1] # 0 /\ target[2] # 0
         THEN [event EXCEPT !.lat = target[1], !.lng = target[2]]
         ELSE event

\* Coordinates of the route the routing control found: none, the route's
\* own polyline, or five points of which one is on the equator.
RouteCoords ==
    { << >>,
      route.polyline,
      << <<600, 600>>, <<0, 650>>, <<1200, 700>>, <<2400, 640>>, <<6600, 600>> >> }

\* Lines 78-160: repositionEventsAlongRoute, run on "routesfound" with the
\* events the component was handed.
RepositionEventsAlongRoute ==
    /\ pc = "done"
    /\ \E routeCoords \in RouteCoords :
          /\ Len(routeCoords) > 0
          /\ events' = [k \in 1..Len(events) |->
                           Repositioned(events[k], events, routeCoords)]
    /\ UNCHANGED <<inputs, callers, pc, currentTime, currentDistance,
                   remainingDrivingHours, shiftDrivingHours, shiftDutyWindowHours,
                   drivingSinceLastBreakHours, milesSinceFuel,
                   originToPickupRemaining, split>>

NextMap == Next \/ RepositionEventsAlongRoute

SpecMap == Init /\ [][NextMap]_vars

---------------------------------------------------------------------------
(* Two invocations *)

\* The parameters, the locals of generateDutyEvents (lines 530-598) and of
\* splitEventsIntoDays of the invocation that holds the variables.  They
\* are declared inside the functions: every call has its own.
Frame ==
    [route |-> route, startTime |-> startTime, config |-> config,
     averageSpeed |-> averageSpeed, tzOffset |-> tzOffset, pc |-> pc,
     events |-> events, currentTime |-> currentTime,
     currentDistance |-> currentDistance,
     remainingDrivingHours |-> remainingDrivingHours,
     shiftDrivingHours |-> shiftDrivingHours,
     shiftDutyWindowHours |-> shiftDutyWindowHours,
     drivingSinceLastBreakHours |-> drivingSinceLastBreakHours,
     milesSinceFuel |-> milesSinceFuel,
     originToPickupRemaining |-> originToPickupRemaining,
     dailyLogs |-> dailyLogs, eventIdx |-> eventIdx, current |-> current,
     result |-> result]

\* The variables are those of frame f.
Entered(f) ==
    /\ route = f.route
    /\ startTime = f.startTime
    /\ config = f.config
    /\ averageSpeed = f.averageSpeed
    /\ tzOffset = f.tzOffset
    /\ pc = f.pc
    /\ events = f.events
    /\ currentTime = f.currentTime
    /\ currentDistance = f.currentDistance
    /\ remainingDrivingHours = f.remainingDrivingHours
    /\ shiftDrivingHours = f.shiftDrivingHours
    /\ shiftDutyWindowHours = f.shiftDutyWindowHours
    /\ drivingSinceLastBreakHours = f.drivingSinceLastBreakHours
    /\ milesSinceFuel = f.milesSinceFuel
    /\ originToPickupRemaining = f.originToPickupRemaining
    /\ dailyLogs = f.dailyLogs
    /\ eventIdx = f.eventIdx
    /\ current = f.current
    /\ result = f.result

\* The variables become those of frame f.
Resume(f) ==
    /\ route' = f.route
    /\ startTime' = f.startTime
    /\ config' = f.config
    /\ averageSpeed' = f.averageSpeed
    /\ tzOffset' = f.tzOffset
    /\ pc' = f.pc
    /\ events' = f.events
    /\ currentTime' = f.currentTime
    /\ currentDistance' = f.currentDistance
    /\ remainingDrivingHours' = f.remainingDrivingHours
    /\ shiftDrivingHours' = f.shiftDrivingHours
    /\ shiftDutyWindowHours' = f.shiftDutyWindowHours
    /\ drivingSinceLastBreakHours' = f.drivingSinceLastBreakHours
    /\ milesSinceFuel' = f.milesSinceFuel
    /\ originToPickupRemaining' = f.originToPickupRemaining
    /\ dailyLogs' = f.dailyLogs
    /\ eventIdx' = f.eventIdx
    /\ current' = f.current
    /\ result' = f.result

\* The frame of a call at its entry (as Init): currentTime is the local
\* midnight of startTime in the time zone the call runs in (lines 531-535).
StartFrame(trip) ==
    [route |-> trip.route, startTime |-> trip.startTime, config |-> trip.config,
     averageSpeed |-> trip.averageSpeed, tzOffset |-> trip.tzOffset,
     pc |-> "start", events |-> << >>,
     currentTime |-> ((trip.startTime + trip.tzOffset) \div MsPerDay) * MsPerDay
                        - trip.tzOffset,
     currentDistance |-> 0, remainingDrivingHours |-> 0, shiftDrivingHours |-> 0,
     shiftDutyWindowHours |-> 0, drivingSinceLastBreakHours |-> 0,
     milesSinceFuel |-> 0, originToPickupRemaining |-> 0,
     dailyLogs |-> << >>, eventIdx |-> 0, current |-> 0, result |-> << >>]

Trip(r, st, cfg, speed, tz) ==
    [route |-> r, startTime |-> st, config |-> cfg, averageSpeed |-> speed,
     tzOffset |-> tz]

\* Trips: the 2 h route from 00:00 UTC of day 1 run in UTC and run in
\* UTC+8 (the same four arguments), and the 20 h route from 08:00 UTC.
Trips ==
    { Trip(Route(40, 60, 2 * MinPerHour), MsPerDay, DefaultProfile, 50, 0),
      Trip(Route(40, 60, 2 * MinPerHour), MsPerDay, DefaultProfile, 50, 8 * MsPerHour),
      Trip(Route(40, 60, 20 * MinPerHour), MsPerDay + 8 * MsPerHour, DefaultProfile,
           50, 0) }

InitTwo ==
    \E t1 \in Trips, t2 \in Trips :
       /\ Entered(StartFrame(t1))
       /\ parked = StartFrame(t2)
       /\ active = 1
       /\ interleaved = [trips |-> <<t1, t2>>, overlapped |-> FALSE,
                         events |-> << >>, alone |-> 0]
       /\ coords = [lat |-> 0, lng |-> 0]

\* A switch that leaves currentDistance where it is: one `let
\* currentDistance` outside the function, shared by all calls.
Switch_SharedDistance ==
    /\ active \in {1, 2}
    /\ interleaved.alone = 0
    /\ parked.pc # "done"
    /\ Resume([parked EXCEPT !.currentDistance = currentDistance])
    /\ parked' = Frame
    /\ active' = 3 - active
    /\ interleaved' = [interleaved EXCEPT !.overlapped = @ \/ pc \notin {"start", "done"}]
    /\ UNCHANGED coords

\* A switch that leaves the events list where it is: one `const events`
\* outside the function, shared by all calls.
Switch_SharedEvents ==
    /\ active \in {1, 2}
    /\ interleaved.alone = 0
    /\ parked.pc # "done"
    /\ Resume([parked EXCEPT !.events = events])
    /\ parked' = Frame
    /\ active' = 3 - active
    /\ interleaved' = [interleaved EXCEPT !.overlapped = @ \/ pc \notin {"start", "done"}]
    /\ UNCHANGED coords

\* The running invocation is suspended between two steps and the other one
\* continues with its own locals (lines 530-537, 576-598: all declared
\* inside generateDutyEvents).
Switch ==
    /\ active \in {1, 2}
    /\ interleaved.alone = 0
    /\ parked.pc # "done"
    /\ Resume(parked)
    /\ parked' = Frame
    /\ active' = 3 - active
    /\ interleaved' = [interleaved EXCEPT !.overlapped = @ \/ pc \notin {"start", "done"}]
    /\ UNCHANGED coords

\* Both interleaved invocations have returned: their events are kept, and
\* each trip is run once more with no other invocation in progress.
RunAlone ==
    /\ active \in {1, 2}
    /\ pc = "done"
    /\ \/ /\ interleaved.alone = 0
          /\ parked.pc = "done"
          /\ interleaved' =
                [interleaved EXCEPT
                   !.events = IF active = 1 THEN <<events, parked.events>>
                              ELSE <<parked.events, events>>,
                   !.alone = 1]
          /\ Resume(StartFrame(interleaved.trips[1]))
          /\ active' = 1
       \/ /\ interleaved.alone = 1
          /\ interleaved' = [interleaved EXCEPT !.alone = 2]
          /\ Resume(StartFrame(interleaved.trips[2]))
          /\ active' = 2
    /\ parked' = [pc |-> "none"]
    /\ UNCHANGED coords

NextTwo == Next \/ Switch \/ RunAlone

SpecTwo == InitTwo /\ [][NextTwo]_vars

---------------------------------------------------------------------------
(* getCoordinateAtDistance on its own *)

\* Polylines: none, one vertex, two coincident vertices, a zero-length
\* first, last and middle segment, a leg along the equator followed by one
\* along a meridian, and a meridian leg that turns back south.
Polylines ==
    { << >>,
      << <<3, 5>> >>,
      << <<3, 5>>, <<3, 5>> >>,
      << <<3, 5>>, <<3, 5>>, <<7, 5>> >>,
      << <<3, 5>>, <<7, 5>>, <<7, 5>> >>,
      << <<3, 5>>, <<7, 5>>, <<7, 5>>, <<9, 5>> >>,
      << <<0, 1>>, <<0, 4>>, <<4, 4>> >>,
      << <<1, 5>>, <<7, 5>>, <<3, 5>> >> }

Targets == (0 - 2)..MaxTarget

InitCoord ==
    /\ \E polyline \in Polylines :
          route = [Route(40, 60, 2 * MinPerHour) EXCEPT !.polyline = polyline]
    /\ currentDistance \in Targets
    /\ config = DefaultProfile
    /\ averageSpeed = 50
    /\ tzOffset = 0
    /\ startTime = MsPerDay
    /\ pc = "getCoordinateAtDistance"
    /\ events = << >>
    /\ currentTime = MsPerDay
    /\ remainingDrivingHours = 0
    /\ shiftDrivingHours = 0
    /\ shiftDutyWindowHours = 0
    /\ drivingSinceLastBreakHours = 0
    /\ milesSinceFuel = 0
    /\ originToPickupRemaining = 0
    /\ dailyLogs = << >>
    /\ eventIdx = 0
    /\ current = 0
    /\ result = << >>
    /\ coords = [lat |-> 0, lng |-> 0]
    /\ active = 0
    /\ parked = [pc |-> "none"]
    /\ interleaved = << >>

\* Line 538: `const coords = getCoordinateAtDistance(currentDistance,
\* route.polyline)`.
GetCoordinateAtDistanceCall ==
    /\ pc = "getCoordinateAtDistance"
    /\ coords' = GetCoordinateAtDistance(currentDistance, route.polyline)
    /\ pc' = "positioned"
    /\ UNCHANGED <<inputs, sched, split, active, parked, interleaved>>

NextCoord == GetCoordinateAtDistanceCall

SpecCoord == InitCoord /\ [][NextCoord]_vars

---------------------------------------------------------------------------
(* Shared vocabulary of the properties *)

Returned == pc \in {"returned", "split", "done"}

Duration(e) == e.end - e.start

RECURSIVE SumDurations(_)
SumDurations(es) ==
    IF es = << >> THEN 0 ELSE Duration(es[1]) + SumDurations(Tail(es))

\* No run of the inputs is cut short by MaxEvents.
BudgetNotBinding == Len(events) < MaxEvents

Last(es) == es[Len(es)]

\* The inputs section 7 of the specification calls valid.
ValidInput ==
    /\ averageSpeed > 0
    /\ route.durationHours >= 0
    /\ route.originToPickupDist >= 0
    /\ route.pickupToDropoffDist >= 0

Abs(x) == IF x < 0 THEN 0 - x ELSE x

\* Local wall-clock reading of a timestamp: calendar day number and the
\* millisecond within that day.
LocalDate(t) == (t + tzOffset) \div MsPerDay

LocalTimeOfDay(t) == (t + tzOffset) % MsPerDay

\* The timestamp of h:m local time on local day 1 + d.
LocalClock(d, h, m) ==
    (1 + d) * MsPerDay - tzOffset + (h * MinPerHour + m) * MsPerMinute

StatusCount(es, st) == Cardinality({i \in 1..Len(es) : es[i].status = st})

RemarksIndices(es, rem) == {i \in 1..Len(es) : es[i].remarks = rem}

RECURSIVE SumStatus(_, _)
SumStatus(es, st) ==
    IF es = << >> THEN 0
    ELSE (IF es[1].status = st THEN Duration(es[1]) ELSE 0) + SumStatus(Tail(es), st)

---------------------------------------------------------------------------
(* C1: in every sequence generateDutyEvents builds, each event ends exactly *)
(* where the next one starts: no gap and no overlap.                        *)
C1_Contiguous ==
    \A i \in 1..(Len(events) - 1) : events[i].end = events[i + 1].start

\* A returned sequence that went through breaks and rests.
C1_Witness ==
    /\ pc = "returned"
    /\ StatusCount(events, "sleeper_berth") >= 2
    /\ StatusCount(events, "driving") >= 4

(* C2: the returned sequence starts at local midnight of startTime's day    *)
(* (with the Continuous Rest Period pad exactly when startTime is after     *)
(* midnight), ends at 23:59:59.999 of the local day on which the post-trip  *)
(* inspection ends, and its durations add up to that whole span.            *)
C2_Coverage ==
    Returned =>
      LET first == events[1]
          last == Last(events)
          post == events[CHOOSE i \in RemarksIndices(events, "Post-trip Inspection") : TRUE]
          pads == RemarksIndices(events, "Off Duty - Continuous Rest Period")
      IN /\ LocalTimeOfDay(first.start) = 0
         /\ LocalDate(first.start) = LocalDate(startTime)
         /\ LocalTimeOfDay(startTime) > 0 =>
               /\ pads = {1}
               /\ first.status = "off_duty"
               /\ first.end = startTime
         /\ LocalTimeOfDay(startTime) = 0 =>
               /\ pads = {}
               /\ first.remarks = "Pre-trip Inspection"
         /\ Cardinality(RemarksIndices(events, "Post-trip Inspection")) = 1
         /\ LocalTimeOfDay(last.end) = MsPerDay - 1
         /\ LocalDate(last.end) = LocalDate(post.end)
         /\ SumDurations(events) = last.end - first.start

\* A returned multi-day sequence that started at midnight, without a pad.
C2_Witness ==
    /\ pc = "returned"
    /\ LocalTimeOfDay(startTime) = 0
    /\ LocalDate(Last(events).end) >= LocalDate(startTime) + 2

\* A returned sequence with the initial pad.
C2_WitnessPad ==
    /\ pc = "returned"
    /\ LocalTimeOfDay(startTime) > 0
    /\ events[1].remarks = "Off Duty - Continuous Rest Period"

(* C3: every emitted event has start strictly before end, for every profile *)
(* the function accepts (a zero-minute break and a zero-hour rest included).*)
C3_NoZeroDuration ==
    ValidInput => \A i \in 1..Len(events) : events[i].start < events[i].end

(* C4: the short single-day scenario (legs 0.8 h and 1.2 h, start 08:00,   *)
(* default profile) returns exactly the eight listed events, and           *)
(* splitEventsIntoDays gives one DailyLog with driving 2.0 h, on-duty      *)
(* 2.5 h, sleeper 0 h and off-duty about 19.5 h.                           *)
ScenarioInput ==
    /\ route = Route(40, 60, 2 * MinPerHour)
    /\ averageSpeed = 50
    /\ config = DefaultProfile
    /\ startTime = LocalClock(0, 8, 0)

Slot(st, from, to) == [status |-> st, start |-> from, end |-> to]

ScenarioEvents ==
    << Slot("off_duty", LocalClock(0, 0, 0), LocalClock(0, 8, 0)),
       Slot("on_duty_not_driving", LocalClock(0, 8, 0), LocalClock(0, 8, 15)),
       Slot("driving", LocalClock(0, 8, 15), LocalClock(0, 9, 3)),
       Slot("on_duty_not_driving", LocalClock(0, 9, 3), LocalClock(0, 10, 3)),
       Slot("driving", LocalClock(0, 10, 3), LocalClock(0, 11, 15)),
       Slot("on_duty_not_driving", LocalClock(0, 11, 15), LocalClock(0, 12, 15)),
       Slot("on_duty_not_driving", LocalClock(0, 12, 15), LocalClock(0, 12, 30)),
       Slot("off_duty", LocalClock(0, 12, 30), LocalClock(1, 0, 0) - 1) >>

Slots(es) == [i \in 1..Len(es) |-> Slot(es[i].status, es[i].start, es[i].end)]

\* The event half of the scenario.
ScenarioEventsReturned == Slots(events) = ScenarioEvents

\* The daily-log half of the scenario (off-duty is 19.5 h less the last ms).
ScenarioOneLog ==
    /\ Len(result) = 1
    /\ result[1].totals["driving"] = 2 * MsPerHour
    /\ result[1].totals["on_duty_not_driving"] = 2 * MsPerHour + 30 * MsPerMinute
    /\ result[1].totals["sleeper_berth"] = 0
    /\ result[1].totals["off_duty"] = 19 * MsPerHour + 30 * MsPerMinute - 1

\* C4: the scenario returns the eight events and one DailyLog with the listed totals.
C4_Scenario ==
    (ScenarioInput /\ pc = "done") => (ScenarioEventsReturned /\ ScenarioOneLog)

\* What does hold of the scenario in every timezone: the eight events.
C4_ScenarioEventsOnly ==
    (ScenarioInput /\ Returned) => ScenarioEventsReturned

\* What holds of the scenario when the runtime's timezone is UTC.
C4_ScenarioInUtc ==
    (ScenarioInput /\ pc = "done" /\ tzOffset = 0) => ScenarioOneLog

(* C5: every DailyLog of splitEventsIntoDays(generateDutyEvents(..)) has   *)
(* status totals that sum to 24 h within 1e-6 h (3.6 ms), on the first,    *)
(* intermediate and last day, in every local timezone.                     *)
TotalsSum(log) ==
    log.totals["off_duty"] + log.totals["sleeper_berth"]
      + log.totals["driving"] + log.totals["on_duty_not_driving"]

\* |sum - 24 h| <= 1e-6 h, i.e. 10 * |sum - 24 h| <= 36 ms.
Within24h(log) == 10 * Abs(TotalsSum(log) - MsPerDay) <= 36

\* C5: every returned DailyLog's totals sum to 24 h within 1e-6 h, in every timezone.
C5_DayTotals ==
    (ValidInput /\ pc = "done") => \A i \in 1..Len(result) : Within24h(result[i])

\* What holds when the runtime's timezone is UTC.
C5_DayTotalsInUtc ==
    (pc = "done" /\ tzOffset = 0) => \A i \in 1..Len(result) : Within24h(result[i])

(* C6: an event that straddles exactly one local midnight is split by      *)
(* splitEventsIntoDays into exactly two sub-events, in two different       *)
(* DailyLogs, with the event's status and remarks, meeting at that         *)
(* midnight, and with durations that sum to the event's duration.          *)
NextLocalMidnight(t) == (LocalDate(t) + 1) * MsPerDay - tzOffset

StraddlesOneMidnight(e) ==
    /\ e.start < NextLocalMidnight(e.start)
    /\ NextLocalMidnight(e.start) < e.end
    /\ e.end <= NextLocalMidnight(e.start) + MsPerDay

\* Positions <<log, index>> of the sub-events cut from event e (the events
\* are contiguous, so a sub-event of positive length inside e comes from e).
SubEventsOf(logs, e) ==
    {p \in UNION {{<<i, j>> : j \in 1..Len(logs[i].events)} : i \in 1..Len(logs)} :
        /\ logs[p[1]].events[p[2]].start >= e.start
        /\ logs[p[1]].events[p[2]].end <= e.end
        /\ logs[p[1]].events[p[2]].start < logs[p[1]].events[p[2]].end}

SplitInTwo(logs, e, differentLogs) ==
    LET subs == SubEventsOf(logs, e)
        m == NextLocalMidnight(e.start)
    IN /\ Cardinality(subs) = 2
       /\ \E a \in subs, b \in subs :
            LET sa == logs[a[1]].events[a[2]]
                sb == logs[b[1]].events[b[2]]
            IN /\ differentLogs => a[1] # b[1]
               /\ sa.start = e.start /\ sa.end = m
               /\ sb.start = m /\ sb.end = e.end
               /\ sa.status = e.status /\ sb.status = e.status
               /\ sa.remarks = e.remarks /\ sb.remarks = e.remarks
               /\ Duration(sa) + Duration(sb) = Duration(e)

\* C6: an event straddling one local midnight becomes two sub-events in two DailyLogs.
C6_MidnightSplit ==
    (ValidInput /\ pc = "done") =>
       \A k \in 1..Len(events) :
          StraddlesOneMidnight(events[k]) => SplitInTwo(result, events[k], TRUE)

\* What does hold in every timezone: two sub-events meeting at the midnight.
C6_TwoSubEvents ==
    (pc = "done") =>
       \A k \in 1..Len(events) :
          StraddlesOneMidnight(events[k]) => SplitInTwo(result, events[k], FALSE)

(* C7: every sub-event is filed in the DailyLog dated with the sub-event's *)
(* LOCAL calendar date, for every timezone offset; a DailyLog dated d      *)
(* holds no time outside local day d.                                      *)
C7_LocalDateKey ==
    ValidInput =>
       \A i \in 1..Len(dailyLogs) : \A j \in 1..Len(dailyLogs[i].events) :
          LET sub == dailyLogs[i].events[j] IN
          /\ LocalDate(sub.start) = dailyLogs[i].date
          /\ LocalDate(sub.end - 1) = dailyLogs[i].date

\* What holds when the runtime's timezone is UTC.
C7_LocalDateKeyInUtc ==
    tzOffset = 0 =>
       \A i \in 1..Len(dailyLogs) : \A j \in 1..Len(dailyLogs[i].events) :
          LET sub == dailyLogs[i].events[j] IN
          /\ LocalDate(sub.start) = dailyLogs[i].date
          /\ LocalDate(sub.end - 1) = dailyLogs[i].date

(* C8: the returned DailyLogs are in ascending date order, one for each    *)
(* local calendar date the events touch: none twice, none missing, none    *)
(* for an untouched date.                                                  *)
TouchedLocalDates ==
    UNION {LocalDate(events[k].start)..LocalDate(events[k].end - 1) :
             k \in {n \in 1..Len(events) : events[n].start < events[n].end}}

SortedOnePerDate(logs, dates) ==
    /\ \A i \in 1..(Len(logs) - 1) : logs[i].date < logs[i + 1].date
    /\ {logs[i].date : i \in 1..Len(logs)} = dates

\* C8: sorted by date, exactly one DailyLog per local calendar date touched.
C8_OneLogPerLocalDate ==
    (ValidInput /\ pc = "done") => SortedOnePerDate(result, TouchedLocalDates)

\* What holds when the runtime's timezone is UTC.
C8_OneLogPerDateInUtc ==
    (pc = "done" /\ tzOffset = 0) => SortedOnePerDate(result, TouchedLocalDates)

(* C9: a trip whose total driving exceeds maxDrivingHours contains exactly *)
(* one sleeper_berth event, of minOffDutyBeforeShiftHours, inserted before *)
(* driving resumes, and right after it shiftDrivingHours,                  *)
(* shiftDutyWindowHours, drivingSinceLastBreakHours and milesSinceFuel are *)
(* all 0.                                                                  *)
SleeperIndices(es) == {i \in 1..Len(es) : es[i].status = "sleeper_berth"}

\* Every rest lasts minOffDutyBeforeShiftHours and driving resumes after it.
RestsWellFormed(es) ==
    \A i \in SleeperIndices(es) :
       /\ Duration(es[i]) = config.shiftRules.minOffDutyBeforeShiftHours * MsPerMinute
       /\ \E j \in (i + 1)..Len(es) : es[j].status = "driving"

JustRested == pc = "leg2" /\ events # << >> /\ Last(events).status = "sleeper_berth"

\* Minutes driven in the events after the last fueling stop.
RECURSIVE DrivenSinceFuel(_)
DrivenSinceFuel(es) ==
    IF es = << >> \/ Last(es).remarks = "Fueling Stop" THEN 0
    ELSE (IF Last(es).status = "driving" THEN Duration(Last(es)) \div MsPerMinute ELSE 0)
           + DrivenSinceFuel(SubSeq(es, 1, Len(es) - 1))

C10_RejectsInvalidInput == ~ValidInput => events = << >>

(* C12: the blocks come in a fixed order: one Pre-trip Inspection, then    *)
(* only leg-1 driving and breaks, one Pickup, then only leg-2 driving,     *)
(* breaks, fuel stops and rests, one Dropoff directly followed by one      *)
(* Post-trip Inspection; off-duty pads only as first and as last event.    *)
IsPad(e) ==
    /\ e.status = "off_duty"
    /\ e.remarks \in {"Off Duty - Continuous Rest Period",
                      "Off Duty - End of Day Rest Period"}

IsBreakEvent(e) == e.status = "off_duty" /\ ~IsPad(e)

IsLeg1Driving(e) == e.status = "driving" /\ e.remarks = "Driving to Pickup Location"

IsLeg2Driving(e) == e.status = "driving" /\ e.remarks = "Driving to Delivery Location"

IsFuelStop(e) == e.status = "on_duty_not_driving" /\ e.remarks = "Fueling Stop"

IsRest(e) == e.status = "sleeper_berth"

TheIndex(es, rem) == CHOOSE i \in RemarksIndices(es, rem) : TRUE

\* C12: fixed block order of every returned sequence.
C12_BlockOrder ==
    Returned =>
      /\ \A rem \in {"Pre-trip Inspection", "Pickup (Loading)",
                     "Dropoff (Unloading)", "Post-trip Inspection"} :
            Cardinality(RemarksIndices(events, rem)) = 1
      /\ LET iPre == TheIndex(events, "Pre-trip Inspection")
             iPick == TheIndex(events, "Pickup (Loading)")
             iDrop == TheIndex(events, "Dropoff (Unloading)")
             iPost == TheIndex(events, "Post-trip Inspection")
         IN /\ iPre < iPick /\ iPick < iDrop /\ iPost = iDrop + 1
            /\ \A k \in 1..Len(events) :
                 /\ k < iPre => k = 1 /\ IsPad(events[k])
                 /\ (iPre < k /\ k < iPick) =>
                       IsLeg1Driving(events[k]) \/ IsBreakEvent(events[k])
                 /\ (iPick < k /\ k < iDrop) =>
                       \/ IsLeg2Driving(events[k]) \/ IsBreakEvent(events[k])
                       \/ IsFuelStop(events[k]) \/ IsRest(events[k])
                 /\ k > iPost => k = Len(events) /\ IsPad(events[k])
                 /\ IsPad(events[k]) => k \in {1, Len(events)}

\* A returned sequence with both pads, leg-1 breaks and leg-2 fuel and rest.
C12_Witness ==
    /\ pc = "returned"
    /\ IsPad(events[1]) /\ IsPad(Last(events))
    /\ \E k \in 1..Len(events) : IsFuelStop(events[k])
    /\ \E k \in 1..Len(events) : IsRest(events[k])
    /\ \E k \in 1..TheIndex(events, "Pickup (Loading)") : IsBreakEvent(events[k])

(* C17: when the leg-1 chunk is <= 0 because the driving cap or the duty   *)
(* window is exhausted, the loop exits without a rest: no sleeper_berth    *)
(* event precedes Pickup, the leg-1 time that is left is dropped, and      *)
(* Pickup follows directly.                                                *)
RECURSIVE Leg1DrivingTotal(_)
Leg1DrivingTotal(es) ==
    IF es = << >> THEN 0
    ELSE (IF IsLeg1Driving(es[1]) THEN Duration(es[1]) ELSE 0) + Leg1DrivingTotal(Tail(es))

Leg1HoursGiven == IF OriginToPickupHours > 0 THEN OriginToPickupHours ELSE 0

Leg1Stalled ==
    /\ pc \notin {"start", "pretrip", "leg1", "pickup"}
    /\ originToPickupRemaining > 0

AtShiftLimit ==
    \/ shiftDrivingHours >= config.shiftRules.maxDrivingHours
    \/ shiftDutyWindowHours >= config.shiftRules.maxDutyWindowHours

\* The events the step appends.
Appended == SubSeq(events', Len(events) + 1, Len(events'))

\* C18: a leg-2 iteration at a shift limit rests and resets, keeping the leg time.
C18_RestAtShiftLimit ==
    [][(pc = "leg2" /\ remainingDrivingHours > 0 /\ AtShiftLimit) =>
         /\ Len(Appended) \in {1, 2}
         /\ SubSeq(events', 1, Len(events)) = events
         /\ Len(Appended) = 2 => IsFuelStop(Appended[1])
         /\ IsRest(Last(Appended))
         /\ Duration(Last(Appended))
              = config.shiftRules.minOffDutyBeforeShiftHours * MsPerMinute
         /\ shiftDrivingHours' = 0
         /\ shiftDutyWindowHours' = 0
         /\ drivingSinceLastBreakHours' = 0
         /\ remainingDrivingHours' = remainingDrivingHours
         /\ pc' = "leg2"]_vars

\* A leg-2 rest taken right after a fuel stop, with leg time still to drive.
C18_Witness ==
    /\ pc = "leg2"
    /\ remainingDrivingHours > 0
    /\ Len(events) > 2
    /\ IsRest(Last(events))
    /\ IsFuelStop(events[Len(events) - 1])
    /\ shiftDrivingHours = 0 /\ shiftDutyWindowHours = 0
    /\ drivingSinceLastBreakHours = 0

(* C19: in both driving loops drivingSinceLastBreakHours never exceeds     *)
(* requiredAfterDrivingHours; at the threshold with leg time remaining the *)
(* next event is an off_duty break of breakDurationMinutes that resets     *)
(* drivingSinceLastBreakHours, keeps the leg time and shiftDrivingHours,   *)
(* and adds its duration to shiftDutyWindowHours.                          *)
LegTimeRemaining ==
    IF pc = "leg1" THEN originToPickupRemaining
    ELSE IF pc = "leg2" THEN remainingDrivingHours
    ELSE 0

LegTimeRemainingNext ==
    IF pc = "leg1" THEN originToPickupRemaining' ELSE remainingDrivingHours'

BreakDue ==
    /\ pc \in {"leg1", "leg2"}
    /\ LegTimeRemaining > 0
    /\ drivingSinceLastBreakHours >= config.breakRules.requiredAfterDrivingHours

BreakClockBounded ==
    drivingSinceLastBreakHours <= config.breakRules.requiredAfterDrivingHours

IsBreakOf(e, cfg) ==
    /\ IsBreakEvent(e)
    /\ Duration(e) = cfg.breakRules.breakDurationMinutes * MsPerMinute

\* C19 as stated: at the threshold the next event is always the break.
C19_BreakAtThreshold ==
    [][ValidInput =>
         /\ BreakClockBounded'
         /\ BreakDue =>
              /\ Len(Appended) >= 1
              /\ IsBreakOf(Appended[1], config)
              /\ drivingSinceLastBreakHours' = 0
              /\ LegTimeRemainingNext = LegTimeRemaining
              /\ shiftDrivingHours' = shiftDrivingHours
              /\ shiftDutyWindowHours'
                   = shiftDutyWindowHours + config.breakRules.breakDurationMinutes]_vars

\* C19 amended: in leg 2 a fuel stop may come first, and a shift limit
\* (counting that fuel stop's half hour) replaces the break by the rest.
C19_BreakUnlessRest ==
    [][/\ BreakClockBounded'
       /\ BreakDue =>
            LET fuelled == Len(Appended) = 2
                fuelTime == IF fuelled THEN 30 ELSE 0
                restDue ==
                  /\ pc = "leg2"
                  /\ \/ shiftDrivingHours >= config.shiftRules.maxDrivingHours
                     \/ shiftDutyWindowHours + fuelTime
                          >= config.shiftRules.maxDutyWindowHours
            IN /\ Len(Appended) \in {1, 2}
               /\ fuelled => pc = "leg2" /\ IsFuelStop(Appended[1])
               /\ drivingSinceLastBreakHours' = 0
               /\ LegTimeRemainingNext = LegTimeRemaining
               /\ pc' = pc
               /\ IF restDue
                  THEN /\ IsRest(Last(Appended))
                       /\ shiftDrivingHours' = 0
                       /\ shiftDutyWindowHours' = 0
                  ELSE /\ IsBreakOf(Last(Appended), config)
                       /\ shiftDrivingHours' = shiftDrivingHours
                       /\ shiftDutyWindowHours'
                            = shiftDutyWindowHours + fuelTime
                                + config.breakRules.breakDurationMinutes]_vars

\* A leg-2 break just taken at the threshold, within a running shift.
C19_Witness ==
    /\ pc = "leg2"
    /\ remainingDrivingHours > 0
    /\ IsBreakEvent(Last(events))
    /\ drivingSinceLastBreakHours = 0
    /\ shiftDrivingHours = config.breakRules.requiredAfterDrivingHours
    /\ shiftDrivingHours > 0

(* C20: a 0.5 h fueling stop is triggered every 1000 miles of cumulative   *)
(* driving: every leg-2 driving event starts with fewer than 1000 miles    *)
(* driven since the last fueling stop (or trip start), and each fueling    *)
(* stop resets milesSinceFuel to 0 and adds 0.5 h to shiftDutyWindowHours. *)
RECURSIVE DrivenMinutes(_)
DrivenMinutes(es) ==
    IF es = << >> THEN 0
    ELSE (IF es[1].status = "driving" THEN Duration(es[1]) \div MsPerMinute ELSE 0)
           + DrivenMinutes(Tail(es))

\* Every leg-2 driving event of es starts below 1000 miles since fuel.
FuelledBeforeDriving(es) ==
    \A k \in 1..Len(es) :
       IsLeg2Driving(es[k]) =>
          DrivenSinceFuel(SubSeq(es, 1, k - 1)) * averageSpeed < 1000 * MinPerHour

\* C20: fuel stop every 1000 miles, resetting the counter and costing 0.5 h.
C20_FuelEvery1000 ==
    [][/\ FuelledBeforeDriving(events')
       /\ milesSinceFuel' = DrivenSinceFuel(events') * averageSpeed
       /\ (pc = "leg2" /\ remainingDrivingHours > 0
             /\ milesSinceFuel >= 1000 * MinPerHour) =>
            /\ Len(Appended) = 2
            /\ IsFuelStop(Appended[1])
       /\ (Len(Appended) >= 1 /\ IsFuelStop(Appended[1])) =>
            /\ pc = "leg2"
            /\ milesSinceFuel >= 1000 * MinPerHour
            /\ Len(Appended) = 2
            /\ Duration(Appended[1]) = 30 * MsPerMinute
            /\ milesSinceFuel' = DrivenMinutes(Appended) * averageSpeed
            /\ shiftDutyWindowHours'
                 = IF IsRest(Appended[2]) THEN 0
                   ELSE shiftDutyWindowHours + 30
                          + Duration(Appended[2]) \div MsPerMinute]_vars

\* A fuel stop followed by the break of the same loop iteration, within a
\* running shift whose duty window now holds the stop's half hour.
C20_Witness ==
    /\ pc = "leg2"
    /\ Len(events) > 2
    /\ IsFuelStop(events[Len(events) - 1])
    /\ IsBreakEvent(Last(events))
    /\ milesSinceFuel = 0
    /\ shiftDutyWindowHours >= 30 + config.breakRules.breakDurationMinutes
    /\ DrivenMinutes(events) * averageSpeed >= 1000 * MinPerHour

(* C11: when a driving loop can make no forward progress (a required-break *)
(* interval, driving cap or duty window <= 0 with driving time remaining)  *)
(* the run ends with a scheduling error: it neither returns a schedule nor *)
(* goes on emitting breaks or rests without end.                           *)
NoProgressProfile ==
    \/ config.breakRules.requiredAfterDrivingHours <= 0
    \/ config.shiftRules.maxDrivingHours <= 0
    \/ config.shiftRules.maxDutyWindowHours <= 0

\* The loop at pc has driving time left and its last MaxEvents - 10 events
\* are all breaks or rests.
LoopsOnBreaksOrRests ==
    /\ pc \in {"leg1", "leg2"}
    /\ Len(events) = MaxEvents
    /\ \A k \in 11..Len(events) : IsBreakEvent(events[k]) \/ IsRest(events[k])

\* C11: a run that cannot make progress stops with a scheduling error.
C11_SchedulingError ==
    (ValidInput /\ NoProgressProfile /\ route.durationHours > 0) =>
       /\ ~Returned
       /\ ~LoopsOnBreaksOrRests

(* C15: getCoordinateAtDistance is total and clamps: (0,0) for an empty    *)
(* polyline; the first vertex for a target <= 0; the last vertex for a     *)
(* target >= the total length (single-vertex polylines and zero-length     *)
(* segments included); otherwise a point of the first segment whose        *)
(* cumulative length reaches the target, with ratio in [0,1] and no        *)
(* division by a zero segment length.                                      *)
Vertex(p) == [lat |-> p[1], lng |-> p[2]]

AbsDiff(a, b) == IF a >= b THEN a - b ELSE b - a

\* Length of segment i of the polyline, written out for its two axes.
SegmentLength(polyline, i) ==
    AbsDiff(polyline[i][1], polyline[i + 1][1])
      + AbsDiff(polyline[i][2], polyline[i + 1][2])

\* Length of the first k segments.
RECURSIVE CumLength(_, _)
CumLength(polyline, k) ==
    IF k <= 0 THEN 0 ELSE CumLength(polyline, k - 1) + SegmentLength(polyline, k)

TotalLength(polyline) == CumLength(polyline, Len(polyline) - 1)

\* c lies on segment i, at distance `along` from its first vertex.
OnSegmentAt(c, polyline, i, along) ==
    LET p1 == polyline[i]
        p2 == polyline[i + 1]
    IN /\ AbsDiff(c.lat, p1[1]) + AbsDiff(c.lng, p1[2]) = along
       /\ AbsDiff(c.lat, p2[1]) + AbsDiff(c.lng, p2[2])
            = SegmentLength(polyline, i) - along
       /\ (p1[1] <= c.lat /\ c.lat <= p2[1]) \/ (p2[1] <= c.lat /\ c.lat <= p1[1])
       /\ (p1[2] <= c.lng /\ c.lng <= p2[2]) \/ (p2[2] <= c.lng /\ c.lng <= p1[2])

\* C15: the four cases of getCoordinateAtDistance, and no NaN coordinate.
C15_TotalAndClamps ==
    pc = "positioned" =>
      LET polyline == route.polyline
          targetDist == currentDistance
      IN /\ coords.lat # NaN /\ coords.lng # NaN
         /\ IF Len(polyline) = 0 THEN coords = [lat |-> 0, lng |-> 0]
            ELSE IF targetDist <= 0 THEN coords = Vertex(polyline[1])
            ELSE IF targetDist >= TotalLength(polyline)
            THEN coords = Vertex(polyline[Len(polyline)])
            ELSE LET i == CHOOSE j \in 1..(Len(polyline) - 1) :
                            /\ CumLength(polyline, j) >= targetDist
                            /\ CumLength(polyline, j - 1) < targetDist
                     along == targetDist - CumLength(polyline, i - 1)
                 IN /\ SegmentLength(polyline, i) > 0
                    /\ 0 <= along /\ along <= SegmentLength(polyline, i)
                    /\ OnSegmentAt(coords, polyline, i, along)

\* A target strictly inside a polyline that has a zero-length segment
\* before the segment the target falls on.
C15_Witness ==
    /\ pc = "positioned"
    /\ Len(route.polyline) = 4
    /\ currentDistance = 5
    /\ coords = [lat |-> 8, lng |-> 5]

(* C14: after generateDutyEvents has returned, no field of any DutyEvent   *)
(* of the list is changed, by splitEventsIntoDays or by the route map, and *)
(* route, startTime and the profile are never modified.                    *)
C14_EventsImmutable ==
    [][ValidInput =>
         /\ Returned => events' = events
         /\ route' = route /\ startTime' = startTime /\ config' = config]_vars

(* C13: generateDutyEvents followed by splitEventsIntoDays, run twice on   *)
(* the same route, startTime, profile and averageSpeed, yields identical   *)
(* event sequences and identical daily logs.                               *)
BothDone == active \in {1, 2} /\ pc = "done" /\ parked.pc = "done"

SameArguments ==
    /\ route = parked.route
    /\ startTime = parked.startTime
    /\ config = parked.config
    /\ averageSpeed = parked.averageSpeed

SameOutput == events = parked.events /\ result = parked.result

\* Both invocations stand at the same point of the same function: same
\* pc, same number of events emitted, same position in the day split.
SamePoint ==
    /\ active \in {1, 2}
    /\ pc = parked.pc
    /\ Len(events) = Len(parked.events)
    /\ eventIdx = parked.eventIdx
    /\ current = parked.current

RunningAlone == active \in {1, 2} /\ interleaved.alone = active

\* C16: the events of a trip run alone are those its interleaved run
\* returned; a step of one invocation leaves the locals of the other alone,
\* and a resumed invocation finds its locals as it left them.
C16_InterleavingKeepsEvents ==
    [][/\ (RunningAlone /\ Returned)' => (events = interleaved.events[active])'
       /\ (active \in {1, 2} /\ interleaved.alone = 0 /\ interleaved'.alone = 0) =>
            IF active' = active
            THEN parked' = parked
            ELSE Frame' = parked /\ parked' = Frame]_vars

\* The second of two different trips, whose runs overlapped, has been run
\* again alone.
C16_Witness ==
    /\ RunningAlone
    /\ active = 2
    /\ pc = "done"
    /\ interleaved.overlapped
    /\ interleaved.trips[1].route # interleaved.trips[2].route
    /\ Len(events) >= 7

(* C21: summed over all DailyLogs that splitEventsIntoDays returns,        *)
(* totals[status] equals the total duration of the input events of that    *)
(* status, for each of the four statuses, and the totalMiles sum equals    *)
(* the driving time times averageSpeed, for events crossing zero, one or   *)
(* several midnights (input events with start <= end).                     *)
RECURSIVE SumTotals(_, _)
SumTotals(logs, st) ==
    IF logs = << >> THEN 0 ELSE logs[1].totals[st] + SumTotals(Tail(logs), st)

RECURSIVE SumMiles(_)
SumMiles(logs) ==
    IF logs = << >> THEN 0 ELSE logs[1].totalMiles + SumMiles(Tail(logs))

WellFormed(es) == \A k \in 1..Len(es) : es[k].start <= es[k].end

\* Number of local midnights strictly inside event e.
MidnightsInside(e) ==
    Cardinality({d \in 0..6 : e.start < d * MsPerDay - tzOffset
                               /\ d * MsPerDay - tzOffset < e.end})

\* C21: the day split conserves the time of every status and the miles.
C21_SplitConservesTime ==
    (pc = "done" /\ WellFormed(events)) =>
       /\ \A st \in DutyStatus : SumTotals(result, st) = SumStatus(events, st)
       /\ SumMiles(result)
            = (SumStatus(events, "driving") \div MsPerMinute) * averageSpeed

\* A split of a list with an event over several midnights, and of one with
\* a drive over one midnight at a positive speed.
C21_Witness ==
    /\ pc = "done"
    /\ WellFormed(events)
    /\ events # << >>
    /\ \/ MidnightsInside(events[1]) >= 3
       \/ /\ averageSpeed > 0
          /\ \E k \in 1..Len(events) :
                events[k].status = "driving" /\ MidnightsInside(events[k]) = 1
    /\ Len(result) >= 2

(* C22: the two leg driving times sum to route.durationHours and are       *)
(* proportional to the origin-to-pickup and pickup-to-dropoff distances;   *)
(* when both distances are 0, leg 1 gets 0 hours and leg 2 gets the whole  *)
(* durationHours. The leg-1 loop starts with the leg-1 share and the       *)
(* leg-2 loop with the leg-2 share.                                        *)
Leg1Share(h) ==
    LET d1 == route.originToPickupDist
        d2 == route.pickupToDropoffDist
    IN IF d1 + d2 > 0 THEN h * (d1 + d2) = d1 * route.durationHours ELSE h = 0

Leg2Share(h) ==
    LET d1 == route.originToPickupDist
        d2 == route.pickupToDropoffDist
    IN IF d1 + d2 > 0 THEN h * (d1 + d2) = d2 * route.durationHours
       ELSE h = route.durationHours

\* The split into h1 hours for leg 1 and h2 hours for leg 2.
LegSplit(h1, h2) ==
    /\ Leg1Share(h1)
    /\ Leg2Share(h2)
    /\ h1 + h2 = route.durationHours
    /\ h1 * route.pickupToDropoffDist = h2 * route.originToPickupDist

\* C22: shares of the legs, as the two loops receive them.
C22_LegSplit ==
    [][ /\ (pc = "pretrip" /\ pc' = "leg1") =>
             LET h1 == originToPickupRemaining'
             IN IF h1 > 0
                THEN LegSplit(h1, route.durationHours - h1)
                ELSE \/ TotalDistance = 0
                     \/ route.originToPickupDist * route.durationHours <= 0
        /\ (pc = "pickup" /\ pc' = "leg2") =>
             LET h2 == remainingDrivingHours'
             IN LegSplit(route.durationHours - h2, h2)
      ]_vars

\* Leg 2 entered with its share of a trip whose two legs both have length.
C22_Witness ==
    /\ pc = "leg2"
    /\ Last(events).remarks = "Pickup (Loading)"
    /\ route.originToPickupDist > 0
    /\ route.pickupToDropoffDist > 0
    /\ remainingDrivingHours > 0
    /\ remainingDrivingHours < route.durationHours
    /\ Leg1HoursGiven + remainingDrivingHours = route.durationHours

(* C23: each event's lat/lng is the position on the route at               *)
(* currentDistance as it was before the event's own advance; the event     *)
(* then advances currentDistance by chunk x averageSpeed (driving), 5      *)
(* miles (fueling stop), 3 miles (short break), 10 miles (sleeper rest)    *)
(* or 0 (pads, inspections, pickup, dropoff), so currentDistance never     *)
(* decreases, and milesSinceFuel counts driven miles only.                 *)
HeuristicAdvance(e) ==
    IF e.status = "driving" THEN (Duration(e) \div MsPerMinute) * averageSpeed
    ELSE IF IsFuelStop(e) THEN 5 * 60
    ELSE IF IsBreakEvent(e) THEN 3 * 60
    ELSE IF IsRest(e) THEN 10 * 60
    ELSE 0

\* The point of the route's meridian at distance d from the origin, held at
\* the dropoff beyond the end of the route.
PointAt(d) ==
    LET o == route.points.origin
        len == route.points.dropoff[1] - o[1]
    IN [lat |-> o[1] + (IF d < len THEN d ELSE len), lng |-> o[2]]

PositionsAndAdvances ==
    /\ \A k \in 1..Len(events) :
          /\ events[k].lat = PointAt(events[k].dist).lat
          /\ events[k].lng = PointAt(events[k].dist).lng
          /\ HeuristicAdvance(events[k]) >= 0
          /\ IF k < Len(events)
             THEN events[k + 1].dist = events[k].dist + HeuristicAdvance(events[k])
             ELSE currentDistance = events[k].dist + HeuristicAdvance(events[k])
    /\ events = << >> => currentDistance = 0
    /\ milesSinceFuel = DrivenSinceFuel(events) * averageSpeed

\* C23: positions before the advance, the five increments, monotonicity.
C23_PositionBeforeAdvance ==
    [][ /\ (pc' \notin {"start", "split", "done"}) => PositionsAndAdvances'
        /\ Len(events') > Len(events) =>
              events'[Len(events) + 1].dist = currentDistance
        /\ currentDistance' >= currentDistance
      ]_vars

\* A returned trip with a fueling stop, a break, a rest and driving, that
\* starts at the origin and ends past the end of the route.
C23_Witness ==
    /\ pc = "returned"
    /\ averageSpeed > 0
    /\ \E i, j, k, l \in 1..Len(events) :
          /\ events[i].status = "driving" /\ events[i].dist > 0
          /\ IsFuelStop(events[j])
          /\ IsBreakEvent(events[k])
          /\ IsRest(events[l])
          /\ events[i].dist < events[l].dist
    /\ events[1].lat < Last(events).lat
    /\ Last(events).dist > route.points.dropoff[1] - route.points.origin[1]

(* C24: the durations of all driving events returned by generateDutyEvents *)
(* sum to route.durationHours, for every route and every profile with      *)
(* positive limits: no driving time of either leg is dropped.              *)
PositiveLimits ==
    /\ config.shiftRules.maxDrivingHours > 0
    /\ config.shiftRules.maxDutyWindowHours > 0
    /\ config.breakRules.requiredAfterDrivingHours > 0

\* C24: all of route.durationHours is driven.
C24_AllDrivingTimeScheduled ==
    (ValidInput /\ PositiveLimits /\ pc = "returned") =>
        SumStatus(events, "driving") = route.durationHours * MsPerMinute

(* C25: with finite durationHours and strictly positive maxDrivingHours,   *)
(* maxDutyWindowHours and requiredAfterDrivingHours, generateDutyEvents    *)
(* terminates: in leg 2 every run of consecutive non-driving iterations    *)
(* (fuel, sleeper, break) is bounded and is followed by a driving chunk of *)
(* positive length that reduces the remaining leg time.                    *)
RECURSIVE TrailingRun(_)
TrailingRun(es) ==
    IF es = << >> \/ Last(es).status = "driving"
                  \/ Last(es).remarks = "Pickup (Loading)"
    THEN 0
    ELSE 1 + TrailingRun(SubSeq(es, 1, Len(es) - 1))

\* A leg-2 iteration either drives for a positive time and reduces the
\* remaining leg time, or adds to a run of at most three non-driving events
\* (fueling stop, break, rest).
Leg2Progress ==
    (PositiveLimits /\ pc = "leg2" /\ pc' = "leg2" /\ events' # events) =>
        IF Last(events').status = "driving"
        THEN /\ Duration(Last(events')) > 0
             /\ remainingDrivingHours' < remainingDrivingHours
        ELSE /\ remainingDrivingHours' = remainingDrivingHours
             /\ TrailingRun(events') <= 3

\* C25: generateDutyEvents returns, and leg 2 keeps making progress.
C25_Terminates ==
    /\ PositiveLimits => <>Returned
    /\ [][Leg2Progress]_vars

\* A returned trip in which leg 2 drove on after a fueling stop, a break
\* and a rest in a row.
C25_Witness ==
    /\ pc = "returned"
    /\ PositiveLimits
    /\ \E k \in 1..(Len(events) - 3) :
          /\ IsFuelStop(events[k])
          /\ IsBreakEvent(events[k + 1])
          /\ IsRest(events[k + 2])
          /\ IsLeg2Driving(events[k + 3])
          /\ Duration(events[k + 3]) > 0

(* C26: after every driving event shiftDrivingHours <= maxDrivingHours and *)
(* shiftDutyWindowHours <= maxDutyWindowHours, and no driving event starts *)
(* when either shift cap is already reached; non-driving events may push   *)
(* shiftDutyWindowHours past the cap.                                      *)
DrivingAppended == Len(events') > Len(events) /\ Last(events').status = "driving"

\* C26: driving stays within both shift caps.
C26_DrivingWithinCaps ==
    [][ DrivingAppended =>
          LET chunk == Duration(Last(events')) \div MsPerMinute IN
          /\ shiftDrivingHours' <= config.shiftRules.maxDrivingHours
          /\ shiftDutyWindowHours' <= config.shiftRules.maxDutyWindowHours
          /\ shiftDrivingHours' - chunk < config.shiftRules.maxDrivingHours
          /\ shiftDutyWindowHours' - chunk < config.shiftRules.maxDutyWindowHours
          /\ shiftDrivingHours' - chunk >= shiftDrivingHours
          /\ shiftDutyWindowHours' - chunk >= shiftDutyWindowHours
      ]_vars

\* A drive of leg 2 that ends exactly at the duty-window cap and below the
\* driving cap, after an earlier rest.
C26_Witness ==
    /\ pc = "leg2"
    /\ Last(events).status = "driving"
    /\ shiftDutyWindowHours = config.shiftRules.maxDutyWindowHours
    /\ shiftDrivingHours < config.shiftRules.maxDrivingHours
    /\ \E k \in 1..Len(events) : IsRest(events[k])

\* A non-driving event has pushed the duty window past its cap.
C26_WindowPastCap ==
    /\ pc \in {"leg1", "leg2"}
    /\ Last(events).status # "driving"
    /\ shiftDutyWindowHours > config.shiftRules.maxDutyWindowHours

(* C27: at every event boundary from the start of Pre-trip through the end *)
(* of Dropoff, shiftDutyWindowHours equals the wall-clock time elapsed     *)
(* since the later of the Pre-trip start and the end of the most recent    *)
(* sleeper_berth event: driving, break, fuel, pickup and dropoff each add  *)
(* their full duration to the window.                                      *)
RECURSIVE WindowStart(_)
WindowStart(es) ==
    IF es = << >> THEN startTime
    ELSE IF Last(es).status = "sleeper_berth" THEN Last(es).end
    ELSE IF Last(es).remarks = "Pre-trip Inspection" THEN Last(es).start
    ELSE WindowStart(SubSeq(es, 1, Len(es) - 1))

\* C27: the duty window is the wall-clock time of the current shift.
C27_WindowIsWallClock ==
    /\ pc = "pretrip" => shiftDutyWindowHours = 0
    /\ pc \in {"leg1", "pickup", "leg2", "posttrip"} =>
          shiftDutyWindowHours * MsPerMinute = currentTime - WindowStart(events)

\* After Dropoff, in a shift that began at the end of a rest and holds a
\* break and driving.
C27_Witness ==
    /\ pc = "posttrip"
    /\ \E r, b \in 1..Len(events) :
          /\ IsRest(events[r]) /\ IsBreakEvent(events[b])
          /\ r < b
          /\ \A k \in (r + 1)..Len(events) : ~IsRest(events[k])
    /\ shiftDrivingHours > 0
    /\ shiftDutyWindowHours > shiftDrivingHours + 60

\* At a leg-2 boundary after a fueling stop that followed the last rest.
C27_WitnessFuel ==
    /\ pc = "leg2"
    /\ \E r, f \in 1..Len(events) :
          /\ IsRest(events[r]) /\ IsFuelStop(events[f])
          /\ r < f
          /\ \A k \in (r + 1)..Len(events) : ~IsRest(events[k])

(* C28: the emergency "Duty Window Rest" sleeper_berth branch of the leg-2 *)
(* loop is unreachable: whenever control passes the shift-limit and break  *)
(* checks with driving time remaining, the computed chunk is strictly      *)
(* positive, so no event with remarks "Duty Window Rest" is ever emitted.  *)
NoDutyWindowRest == \A k \in 1..Len(events) : events[k].remarks # "Duty Window Rest"

\* The shift-limit and break checks of lines 652-663 let the iteration pass.
PassesChecks ==
    /\ shiftDrivingHours < config.shiftRules.maxDrivingHours
    /\ shiftDutyWindowHours
         + (IF milesSinceFuel >= 1000 * MinPerHour THEN 30 ELSE 0)
         < config.shiftRules.maxDutyWindowHours
    /\ drivingSinceLastBreakHours < config.breakRules.requiredAfterDrivingHours

\* C28: no "Duty Window Rest"; past the checks the iteration drives.
C28_NoEmergencyRest ==
    [][ /\ NoDutyWindowRest'
        /\ (pc = "leg2" /\ remainingDrivingHours > 0 /\ PassesChecks
              /\ events' # events) =>
              /\ Last(events').status = "driving"
              /\ Duration(Last(events')) > 0
      ]_vars

\* A leg-2 iteration passed the checks with the duty window as the smallest
\* term of the chunk: it drove up to the cap, with leg time left.
C28_Witness ==
    /\ pc = "leg2"
    /\ remainingDrivingHours > 0
    /\ Last(events).status = "driving"
    /\ shiftDutyWindowHours = config.shiftRules.maxDutyWindowHours
    /\ shiftDrivingHours < config.shiftRules.maxDrivingHours
    /\ drivingSinceLastBreakHours < config.breakRules.requiredAfterDrivingHours

(* C29: in leg 2, fuel, break and sleeper_berth events are emitted only    *)
(* while driving time remains, so each of them is followed by a driving    *)
(* event before Dropoff; the event immediately before Dropoff is a driving *)
(* event when the leg-2 hours are positive and the Pickup event when they  *)
(* are 0.                                                                  *)
Leg2HoursPositive ==
    IF route.originToPickupDist + route.pickupToDropoffDist > 0
    THEN route.pickupToDropoffDist * route.durationHours > 0
    ELSE route.durationHours > 0

IsPickup(e) == e.remarks = "Pickup (Loading)"
IsDropoff(e) == e.remarks = "Dropoff (Unloading)"

\* Every fuel, break or rest event after Pickup has a leg-2 drive after it
\* and before Dropoff.
StopsFollowedByDriving ==
    \A p, d \in 1..Len(events) :
       (IsPickup(events[p]) /\ IsDropoff(events[d])) =>
          /\ p < d
          /\ \A k \in (p + 1)..(d - 1) :
                events[k].status # "driving" =>
                   /\ IsFuelStop(events[k]) \/ IsBreakEvent(events[k]) \/ IsRest(events[k])
                   /\ \E j \in (k + 1)..(d - 1) : IsLeg2Driving(events[j])
          /\ IF Leg2HoursPositive
             THEN IsLeg2Driving(events[d - 1])
             ELSE d - 1 = p

\* C29: leg-2 stops only with leg time left; Dropoff follows a drive or Pickup.
C29_StopsOnlyWhileDrivingRemains ==
    [][ /\ (pc = "leg2" /\ Len(events') > Len(events)
              /\ \E k \in 1..Len(Appended) : Appended[k].status # "driving"
              /\ ~IsDropoff(Last(events'))) =>
              /\ remainingDrivingHours > 0
              /\ pc' = "leg2"
        /\ StopsFollowedByDriving'
      ]_vars

\* A returned trip whose leg 2 holds a fueling stop, a break and a rest and
\* ends with a drive before Dropoff.
C29_Witness ==
    /\ pc = "returned"
    /\ Leg2HoursPositive
    /\ \E p, f, b, r, d \in 1..Len(events) :
          /\ IsPickup(events[p]) /\ IsDropoff(events[d])
          /\ IsFuelStop(events[f]) /\ IsBreakEvent(events[b]) /\ IsRest(events[r])
          /\ p < f /\ p < b /\ p < r
          /\ IsLeg2Driving(events[d - 1])

\* A returned trip without leg-2 hours: Dropoff follows Pickup.
C29_WitnessNoLeg2 ==
    /\ pc = "returned"
    /\ ~Leg2HoursPositive
    /\ \E p \in 1..(Len(events) - 1) :
          IsPickup(events[p]) /\ IsDropoff(events[p + 1])

(* C30: within every DailyLog returned by splitEventsIntoDays for          *)
(* contiguous input, the sub-events are in ascending time order and        *)
(* contiguous, and each sub-event lies within one local calendar day (its  *)
(* end is at most the first local midnight after its start); an input      *)
(* event with start >= end contributes no sub-event and no totals.         *)
Contiguous(es) ==
    /\ WellFormed(es)
    /\ \A k \in 1..(Len(es) - 1) : es[k].end = es[k + 1].start

\* The first local midnight after t.
MidnightAfter(t) ==
    ((t + tzOffset) \div MsPerDay) * MsPerDay + MsPerDay - tzOffset

RECURSIVE SumSubEvents(_)
SumSubEvents(logs) ==
    IF logs = << >> THEN 0 ELSE Len(logs[1].events) + SumSubEvents(Tail(logs))

\* Sub-events and time that the events of positive duration account for.
RECURSIVE ExpectedSubEvents(_)
ExpectedSubEvents(es) ==
    IF es = << >> THEN 0
    ELSE (IF es[1].start < es[1].end THEN 1 + MidnightsInside(es[1]) ELSE 0)
           + ExpectedSubEvents(Tail(es))

RECURSIVE PositiveTime(_)
PositiveTime(es) ==
    IF es = << >> THEN 0
    ELSE (IF es[1].start < es[1].end THEN Duration(es[1]) ELSE 0)
           + PositiveTime(Tail(es))

\* C30: order, contiguity and local-day containment of the sub-events.
C30_SubEventsWithinLocalDay ==
    pc = "done" =>
      /\ \A i \in 1..Len(result) :
            LET sub == result[i].events IN
            /\ sub # << >>
            /\ \A j \in 1..Len(sub) :
                  /\ sub[j].start < sub[j].end
                  /\ sub[j].end <= MidnightAfter(sub[j].start)
            /\ Contiguous(events) =>
                  \A j \in 1..(Len(sub) - 1) : sub[j].end = sub[j + 1].start
      /\ SumSubEvents(result) = ExpectedSubEvents(events)
      /\ SumTotals(result, "off_duty") + SumTotals(result, "sleeper_berth")
           + SumTotals(result, "driving") + SumTotals(result, "on_duty_not_driving")
           = PositiveTime(events)

\* A split of a contiguous list with an event of no duration in it, that
\* put two or more sub-events into one log and cut an event at a midnight.
C30_Witness ==
    /\ pc = "done"
    /\ Contiguous(events)
    /\ \E k \in 1..Len(events) : events[k].start = events[k].end
    /\ \E i \in 1..Len(result) : Len(result[i].events) >= 2
    /\ SumSubEvents(result) > Len(events) - 1

\* A split of a list with an event whose end precedes its start.
C30_WitnessReversed ==
    /\ pc = "done"
    /\ \E k \in 1..Len(events) : events[k].start > events[k].end
    /\ SumSubEvents(result) = Len(events) - 1

====
